---- MODULE Spec2Model ----
(***************************************************************************)
(* A model of the request-handling core of the OpenClaw dashboard          *)
(* (server.js): the per-IP rate limiter, the TTL response cache, the       *)
(* bearer-token auth gate, the metric collectors with their probes, and    *)
(* the request router that composes them.                                  *)
(*                                                                         *)
(* Node runs every handler to its next await without interleaving, so one  *)
(* action is one synchronous run of a handler: from the arrival of the     *)
(* request to its response or to its first suspension, and from the        *)
(* completion of a probe to the next suspension or the response.           *)
(***************************************************************************)
EXTENDS Integers, Sequences, FiniteSets, TLC

\* ------------------------------------------------------------------------
\* Program constants
\* ------------------------------------------------------------------------

CACHE_TTL == 5000

RATE_LIMIT == 60

RATE_WINDOW == 60000

\* ------------------------------------------------------------------------
\* Bounds of the model
\* ------------------------------------------------------------------------

\* Requests that may be suspended on an await at the same time.
MaxInFlight == 3

\* Requests one client sends within a window while the collectors are
\* exercised.
MaxReqs == 3

\* Calls of one client that the environment still issues after the client's
\* counter has passed RATE_LIMIT (the counter itself is unbounded).
MaxOver == 2

\* Direct invocations of run and runFile.
MaxRuns == 2

\* The instants Date.now() takes while the cache is exercised: both sides of
\* the expiry of an entry stored at 0 and of one stored at CACHE_TTL - 1.
CacheInstants ==
  {0, CACHE_TTL - 1, CACHE_TTL, 2 * CACHE_TTL - 2, 2 * CACHE_TTL - 1}

\* The instants Date.now() takes while the rate limiter is exercised: the
\* clock only moves forward, and the instants sit on both sides of the window
\* boundary of an entry opened at 0 and of one opened at RATE_WINDOW + 1.
RateInstants ==
  {0, RATE_WINDOW, RATE_WINDOW + 1, 2 * RATE_WINDOW + 1, 2 * RATE_WINDOW + 2}

Clients == {"10.0.0.1", "10.0.0.2"}

\* The value Map.get returns for a key that is not in the map (undefined).
NoEntry == [none |-> TRUE]

\* A slot no request is suspended in.
Idle == [busy |-> FALSE]

\* A slot of runs no invocation was made in.
NoRun == [state |-> "none"]

\* The process once the module is loaded: the server listens, no signal was
\* received.
Listening == [phase |-> "up"]

VARIABLES
  now,      \* Date.now()
  config,   \* the configuration loaded at startup (never written afterwards)
  rateMap,  \* rateMap: ip -> {count, start}, NoEntry when the key is absent
  rl,       \* the last isRateLimited call: its argument, result and the entry it found
  win,      \* history: per client, the window the calls since its opening belong to
  au,       \* the last direct checkAuth call: its header and result
  cache,    \* cache: key -> {data, time}, NoEntry when the key is absent
  written,  \* history: per key, the value and instant of the last setCache
  got,      \* the last direct getCached call: its key, instant and result
  alive,    \* the process is running (FALSE once an unhandled rejection ended it)
  reqs,     \* the requests suspended on an await, one per slot
  ev,       \* the last run of a handler: what it was given, did and answered
  call,     \* the last direct call of a pure helper: its arguments and result
  adm,      \* history: per client and instant, the direct calls isRateLimited admitted
  runs,     \* the invocations of run and runFile made directly, one per slot
  proc      \* the process: listening, closing or exited, and its grace timer

rateVars == <<rateMap, rl, win>>

cacheVars == <<cache, written, got>>

reqVars == <<alive, reqs, ev>>

\* What the handlers of a request never write.
auxVars == <<call, runs, proc>>

vars == <<now, config, rateVars, adm, au, cacheVars, reqVars, auxVars>>

\* ------------------------------------------------------------------------
\* Strings (TLC gives Len, \o and SubSeq on strings)
\* ------------------------------------------------------------------------

\* The character of s at position i (1-based), as a string of length 1.
Ch(s, i) == SubSeq(s, i, i)

\* String.prototype.startsWith
StartsWith(s, p) == Len(s) >= Len(p) /\ SubSeq(s, 1, Len(p)) = p

RECURSIVE SplitFrom(_, _, _, _, _)
\* The pieces of s from position i on, cut at every occurrence of the
\* character sep; cur is the piece being read and acc the pieces read.
SplitFrom(s, sep, i, cur, acc) ==
  IF i > Len(s)
    THEN Append(acc, cur)
    ELSE IF Ch(s, i) = sep
      THEN SplitFrom(s, sep, i + 1, "", Append(acc, cur))
      ELSE SplitFrom(s, sep, i + 1, cur \o Ch(s, i), acc)

\* String.prototype.split with a separator of one character: "a  b" gives
\* <<"a", "", "b">> and "" gives <<"">>.
Split(s, sep) == SplitFrom(s, sep, 1, "", <<>>)

\* The last element of a non-empty sequence (Array.prototype.pop's result).
Last(seq) == seq[Len(seq)]

\* The position of the first character of s at or after i that is in the
\* set cs, or Len(s) + 1 when there is none.
RECURSIVE FirstIn(_, _, _)
FirstIn(s, cs, i) ==
  IF i > Len(s) \/ Ch(s, i) \in cs THEN i ELSE FirstIn(s, cs, i + 1)

\* The position of the first character of s at or after i that is not in cs.
RECURSIVE FirstNotIn(_, _, _)
FirstNotIn(s, cs, i) ==
  IF i > Len(s) \/ Ch(s, i) \notin cs THEN i ELSE FirstNotIn(s, cs, i + 1)

\* s from position i to its end.
From(s, i) == SubSeq(s, i, Len(s))

Digit == {"0", "1", "2", "3", "4", "5", "6", "7", "8", "9"}

Lower ==
  {"a", "b", "c", "d", "e", "f", "g", "h", "i", "j", "k", "l", "m",
   "n", "o", "p", "q", "r", "s", "t", "u", "v", "w", "x", "y", "z"}

Upper ==
  {"A", "B", "C", "D", "E", "F", "G", "H", "I", "J", "K", "L", "M",
   "N", "O", "P", "Q", "R", "S", "T", "U", "V", "W", "X", "Y", "Z"}

AlNum == Lower \cup Upper \cup Digit

DigitVal(c) ==
  CASE c = "0" -> 0 [] c = "1" -> 1 [] c = "2" -> 2 [] c = "3" -> 3
    [] c = "4" -> 4 [] c = "5" -> 5 [] c = "6" -> 6 [] c = "7" -> 7
    [] c = "8" -> 8 [] c = "9" -> 9

\* The number a string of decimal digits writes, capped at cap + 1 so that
\* long strings stay within the integers.
RECURSIVE DecimalFrom(_, _, _, _)
DecimalFrom(s, i, acc, cap) ==
  IF i > Len(s) \/ acc > cap
    THEN acc
    ELSE DecimalFrom(s, i + 1, acc * 10 + DigitVal(Ch(s, i)), cap)

\* ASCII lower case of a scheme.
LowerCh(c) ==
  CASE c = "H" -> "h" [] c = "T" -> "t" [] c = "P" -> "p" [] c = "S" -> "s"
    [] c = "F" -> "f" [] OTHER -> c

RECURSIVE LowerFrom(_, _)
LowerFrom(s, i) == IF i > Len(s) THEN "" ELSE LowerCh(Ch(s, i)) \o LowerFrom(s, i + 1)

\* ------------------------------------------------------------------------
\* Configuration
\* ------------------------------------------------------------------------

\* A token of "" stands for auth.token null (or empty): both are falsy.
DEFAULT_CONFIG ==
  [ refreshInterval |-> 10000,
    dashboardTitle  |-> "OpenClaw Dashboard",
    token           |-> "",
    allowedOrigins  |-> <<>>,
    gatewayUrl      |-> "http://localhost:31418",
    services        |-> <<>>,
    hosts           |-> <<>>,
    quickLinks      |-> <<>> ]

\* ------------------------------------------------------------------------
\* Authentication
\* ------------------------------------------------------------------------

\* req.headers.authorization: absent (undefined) or a string.
NoHeader == [has |-> FALSE, val |-> ""]

Header(s) == [has |-> TRUE, val |-> s]

\* checkAuth(req) for the configured token and the request's Authorization
\* header: the header is split at every space and only the first two pieces
\* are read.
CheckAuth(token, header) ==
  IF token = ""
    THEN TRUE
    ELSE IF ~header.has \/ header.val = ""
      THEN FALSE
      ELSE LET parts == Split(header.val, " ") IN
           /\ parts[1] = "Bearer"
           /\ Len(parts) >= 2
           /\ parts[2] = token

\* ------------------------------------------------------------------------
\* Input validation
\* ------------------------------------------------------------------------

\* Characters the URL parser refuses in a host (forbidden host code points).
ForbiddenHost ==
  {" ", "#", "/", ":", "<", ">", "?", "@", "[", "\\", "]", "^", "|", "%"}

\* new URL(str) for a string without a base, as far as isValidUrl reads it:
\* whether the parse succeeds, and the protocol. The scheme is a letter
\* followed by letters, digits, "+", "-" and "." up to the first ":". After
\* http: or https: any number of slashes is skipped, the host runs to the
\* next "/", "?" or "#" and must be non-empty and free of forbidden
\* characters, and a port must be decimal and at most 65535. Other schemes
\* always parse. Strings with "@", "\\", "[" or a percent-escape in the
\* authority, and leading or trailing spaces, are outside this model's inputs.
ParseUrl(str) ==
  LET colon    == FirstNotIn(str, AlNum \cup {"+", "-", "."}, 1)
      scheme   == LowerFrom(SubSeq(str, 1, colon - 1), 1)
      hasSch   == /\ Len(str) >= 2
                  /\ Ch(str, 1) \in Lower \cup Upper
                  /\ colon <= Len(str)
                  /\ Ch(str, colon) = ":"
      authFrom == FirstNotIn(str, {"/"}, colon + 1)
      authEnd  == FirstIn(str, {"/", "?", "#"}, authFrom)
      auth     == SubSeq(str, authFrom, authEnd - 1)
      hostEnd  == FirstIn(auth, {":"}, 1)
      host     == SubSeq(auth, 1, hostEnd - 1)
      port     == From(auth, hostEnd + 1)
      hostOk   == /\ host # ""
                  /\ \A i \in 1..Len(host) : Ch(host, i) \notin ForbiddenHost
      portOk   == /\ \A i \in 1..Len(port) : Ch(port, i) \in Digit
                  /\ DecimalFrom(port, 1, 0, 65535) <= 65535
  IN  IF ~hasSch
        THEN [ok |-> FALSE, protocol |-> ""]
        ELSE IF scheme \in {"http", "https"}
          THEN [ok |-> hostOk /\ portOk, protocol |-> scheme \o ":"]
          ELSE [ok |-> TRUE, protocol |-> scheme \o ":"]

\* isValidUrl without the protocol test: any URL that parses is taken.
IsValidUrlAnyScheme(str) == ParseUrl(str).ok

\* isValidUrl(str)
IsValidUrl(str) ==
  LET url == ParseUrl(str) IN
  url.ok /\ url.protocol \in {"http:", "https:"}

\* The pattern of isValidHostname without its end anchor.
IsValidHostnameUnanchored(str) == Len(str) >= 1 /\ Ch(str, 1) \in AlNum

\* isValidHostname(str): /^[a-zA-Z0-9][a-zA-Z0-9._-]*$/
IsValidHostname(str) ==
  /\ Len(str) >= 1
  /\ Ch(str, 1) \in AlNum
  /\ \A i \in 2..Len(str) : Ch(str, i) \in AlNum \cup {".", "_", "-"}

\* ------------------------------------------------------------------------
\* Response cache
\* ------------------------------------------------------------------------

\* The keys the collectors use, and the key of the cache tests.
MetricKeys == {"system", "sessions", "services", "network", "crons"}

CacheKeys == MetricKeys \cup {"mykey"}

\* The JavaScript value null.
Null == [null |-> TRUE]

\* getCached that never finds anything.
GetCachedNever(entry, t) == Null

\* getCached serving an entry that is exactly CACHE_TTL old.
GetCachedInclusive(entry, t) ==
  IF entry # NoEntry /\ t - entry.time <= CACHE_TTL THEN entry.data ELSE Null

\* getCached without the age check.
GetCachedAnyAge(entry, t) == IF entry # NoEntry THEN entry.data ELSE Null

\* getCached(key) at instant t, given the entry cache.get(key) found.
GetCached(entry, t) ==
  IF entry # NoEntry /\ t - entry.time < CACHE_TTL THEN entry.data ELSE Null

\* The entry setCache(key, data) stores at instant t.
SetCache(data, t) == [data |-> data, time |-> t]

\* ------------------------------------------------------------------------
\* Rate limiter
\* ------------------------------------------------------------------------

\* isRateLimited restarting the window at every call it rejects.
IsRateLimitedProlonging(entry, t) ==
  IF entry = NoEntry \/ t - entry.start > RATE_WINDOW
    THEN [entry |-> [count |-> 1, start |-> t], ret |-> FALSE]
    ELSE IF entry.count + 1 > RATE_LIMIT
      THEN [entry |-> [count |-> entry.count + 1, start |-> t], ret |-> TRUE]
      ELSE [entry |-> [count |-> entry.count + 1, start |-> entry.start],
            ret |-> FALSE]

\* isRateLimited that does not count the calls it rejects.
IsRateLimitedUncounted(entry, t) ==
  IF entry = NoEntry \/ t - entry.start > RATE_WINDOW
    THEN [entry |-> [count |-> 1, start |-> t], ret |-> FALSE]
    ELSE IF entry.count + 1 > RATE_LIMIT
      THEN [entry |-> entry, ret |-> TRUE]
      ELSE [entry |-> [count |-> entry.count + 1, start |-> entry.start],
            ret |-> FALSE]

\* isRateLimited comparing the count it found, before incrementing it: a
\* window admits 61 calls.
IsRateLimitedPreIncrement(entry, t) ==
  IF entry = NoEntry \/ t - entry.start > RATE_WINDOW
    THEN [entry |-> [count |-> 1, start |-> t], ret |-> FALSE]
    ELSE [entry |-> [count |-> entry.count + 1, start |-> entry.start],
          ret |-> entry.count > RATE_LIMIT]

\* isRateLimited with the limit compared by >= : the 60th call is rejected.
IsRateLimitedAtLimit(entry, t) ==
  IF entry = NoEntry \/ t - entry.start > RATE_WINDOW
    THEN [entry |-> [count |-> 1, start |-> t], ret |-> FALSE]
    ELSE [entry |-> [count |-> entry.count + 1, start |-> entry.start],
          ret |-> entry.count + 1 >= RATE_LIMIT]

\* isRateLimited with the window compared by >= : an entry exactly
\* RATE_WINDOW old is reset instead of counted.
IsRateLimitedEarlyReset(entry, t) ==
  IF entry = NoEntry \/ t - entry.start >= RATE_WINDOW
    THEN [entry |-> [count |-> 1, start |-> t], ret |-> FALSE]
    ELSE [entry |-> [count |-> entry.count + 1, start |-> entry.start],
          ret |-> entry.count + 1 > RATE_LIMIT]

\* isRateLimited(ip) at instant t, given the entry rateMap.get(ip) found:
\* the entry it leaves in rateMap and the value it returns.
IsRateLimited(entry, t) ==
  IF entry = NoEntry \/ t - entry.start > RATE_WINDOW
    THEN [entry |-> [count |-> 1, start |-> t], ret |-> FALSE]
    ELSE [entry |-> [count |-> entry.count + 1, start |-> entry.start],
          ret |-> entry.count + 1 > RATE_LIMIT]

\* The counter is unbounded in the code; the environment stops sending for a
\* client whose live window already counts cap calls.
MayArrive(ip, cap) ==
  IF rateMap[ip] = NoEntry
    THEN TRUE
    ELSE IF now - rateMap[ip].start > RATE_WINDOW
      THEN TRUE
      ELSE rateMap[ip].count < cap

MayCall(ip) == MayArrive(ip, RATE_LIMIT + MaxOver)

\* History of the calls, kept apart from rateMap (the sweep never touches it):
\* the window a call at instant t belongs to and the call's rank in it.
WinAfter(w, t) ==
  IF w = NoEntry \/ t - w.start > RATE_WINDOW
    THEN [n |-> 1, start |-> t]
    ELSE [n |-> w.n + 1, start |-> w.start]

\* isRateLimited keeping one entry for all clients.
IsRateLimitedCallShared(ip) ==
  /\ MayCall(ip)
  /\ LET r == IsRateLimited(rateMap["10.0.0.1"], now) IN
       /\ rateMap' = [rateMap EXCEPT !["10.0.0.1"] = r.entry]
       /\ rl' = [called |-> TRUE, ip |-> ip, at |-> now, before |-> rateMap[ip],
                 after |-> r.entry, ret |-> r.ret]
  /\ win' = [win EXCEPT ![ip] = WinAfter(win[ip], now)]
  /\ UNCHANGED <<now, config, auxVars, au, cacheVars, reqVars>>

\* A direct call isRateLimited(ip), as the tests make it.
IsRateLimitedCall(ip) ==
  /\ MayCall(ip)
  /\ LET r == IsRateLimited(rateMap[ip], now) IN
       /\ rateMap' = [rateMap EXCEPT ![ip] = r.entry]
       /\ rl' = [called |-> TRUE, ip |-> ip, at |-> now, before |-> rateMap[ip],
                 after |-> r.entry, ret |-> r.ret]
  /\ win' = [win EXCEPT ![ip] = WinAfter(win[ip], now)]
  /\ UNCHANGED <<now, config, auxVars, au, cacheVars, reqVars>>

\* An entry the sweep deletes at instant t.
\* A sweep that takes every entry for expired.
StaleAlways(entry, t) == entry # NoEntry

\* A sweep that takes an entry exactly RATE_WINDOW old for expired.
StaleAtWindow(entry, t) == entry # NoEntry /\ t - entry.start >= RATE_WINDOW

Stale(entry, t) == entry # NoEntry /\ t - entry.start > RATE_WINDOW

\* One pass of the rateSweepTimer callback.
Sweep ==
  /\ alive
  /\ \E ip \in Clients : Stale(rateMap[ip], now)
  /\ rateMap' = [ip \in Clients |->
                   IF Stale(rateMap[ip], now) THEN NoEntry ELSE rateMap[ip]]
  /\ UNCHANGED <<now, config, auxVars, adm, rl, win, au, cacheVars, reqVars>>

\* Time passes between two handlers, up to a later instant of S.
Advance(S) ==
  /\ \E t \in S : t > now /\ now' = t
  /\ UNCHANGED <<config, auxVars, adm, rateVars, au, cacheVars, reqVars>>

NoCall == [called |-> FALSE]

\* The state once the module is loaded, for a configuration among cfgs.
InitState(cfgs) ==
  /\ now = 0
  /\ config \in cfgs
  /\ rateMap = [ip \in Clients |-> NoEntry]
  /\ rl = NoCall
  /\ win = [ip \in Clients |-> NoEntry]
  /\ au = NoCall
  /\ cache = [k \in CacheKeys |-> NoEntry]
  /\ written = [k \in CacheKeys |-> NoEntry]
  /\ got = NoCall
  /\ alive = TRUE
  /\ reqs = [i \in 1..MaxInFlight |-> Idle]
  /\ ev = [type |-> "none"]
  /\ call = NoCall
  /\ adm = [ip \in Clients |-> [t \in RateInstants |-> 0]]
  /\ runs = [k \in 1..MaxRuns |-> NoRun]
  /\ proc = Listening

InitRate == InitState({DEFAULT_CONFIG})

NextRate ==
  \/ \E ip \in Clients : IsRateLimitedCall(ip) /\ UNCHANGED adm
  \/ Sweep
  \/ Advance(RateInstants)

SpecRate == InitRate /\ [][NextRate]_vars

\* ------------------------------------------------------------------------
\* Properties of the rate limiter
\* ------------------------------------------------------------------------

\* C1: counting a client's calls from the one that opened its window (the
\* client had no entry, or its window had expired), the calls ranked 1 to 60
\* return false and every call ranked 61 or more returns true.
C1_SixtyAdmittedThenLimited ==
  rl.called => (rl.ret <=> win[rl.ip].n > RATE_LIMIT)

\* A 61st call of a window has been made and was rejected.
C1_Witness ==
  rl.called /\ rl.ret /\ win[rl.ip].n = RATE_LIMIT + 1

\* C2: a call that finds an entry more than RATE_WINDOW old resets it to
\* count 1 and start now and returns false, whatever the old count; a call
\* that finds an entry at most RATE_WINDOW old (exactly RATE_WINDOW included)
\* is counted in that window.
C2_ResetAfterWindow ==
  (rl.called /\ rl.before # NoEntry) =>
    IF rl.at - rl.before.start > RATE_WINDOW
      THEN rl.after = [count |-> 1, start |-> rl.at] /\ ~rl.ret
      ELSE rl.after = [count |-> rl.before.count + 1, start |-> rl.before.start]

\* A client that was limited in its previous window calls after the window
\* has expired and is admitted.
C2_Witness ==
  /\ rl.called
  /\ rl.before # NoEntry
  /\ rl.before.count > RATE_LIMIT
  /\ rl.at - rl.before.start > RATE_WINDOW
  /\ rl.after = [count |-> 1, start |-> rl.at]
  /\ ~rl.ret

\* ------------------------------------------------------------------------
\* CORS helpers
\* ------------------------------------------------------------------------

\* Array.prototype.includes
Includes(seq, x) == \E i \in 1..Len(seq) : seq[i] = x

\* The headers every answer of getCorsHeaders has.
CorsBase ==
  ( "Access-Control-Allow-Methods" :> "GET, OPTIONS" @@
    "Access-Control-Allow-Headers" :> "Content-Type, Authorization" @@
    "Content-Type" :> "application/json" )

\* getCorsHeaders mirroring the origin whatever the allowlist holds.
GetCorsHeadersMirror(allowed, origin) ==
  IF origin.has /\ origin.val # ""
    THEN CorsBase @@ ("Access-Control-Allow-Origin" :> origin.val)
    ELSE CorsBase

\* getCorsHeaders(req): origin is req.headers.origin, absent or a string.
GetCorsHeaders(allowed, origin) ==
  LET headers == ( "Access-Control-Allow-Methods" :> "GET, OPTIONS" @@
                   "Access-Control-Allow-Headers" :> "Content-Type, Authorization" @@
                   "Content-Type" :> "application/json" )
      truthy  == origin.has /\ origin.val # ""
  IN  IF Len(allowed) = 0
        THEN IF truthy
               THEN headers @@ ("Access-Control-Allow-Origin" :> origin.val)
               ELSE headers
        ELSE IF Includes(allowed, "*")
          THEN headers @@ ("Access-Control-Allow-Origin" :> "*")
          ELSE IF truthy /\ Includes(allowed, origin.val)
            THEN headers @@ ("Access-Control-Allow-Origin" :> origin.val)
            ELSE headers

\* ------------------------------------------------------------------------
\* Shell helpers: what a probe resolves to
\* ------------------------------------------------------------------------

\* run and runFile resolve to the trimmed output, or to null on a non-zero
\* exit, a spawn error or the timeout.
Failed == [ok |-> FALSE, out |-> ""]

Output(s) == [ok |-> TRUE, out |-> s]

\* ------------------------------------------------------------------------
\* API handlers: the pure part of each collector
\* ------------------------------------------------------------------------

\* A sub-task of a collector that awaits a probe process: target is the
\* command line (run) or the argument that names the probed endpoint
\* (runFile), res what the probe resolved to and val what the sub-task
\* returns.
Spawned(target, meta) ==
  [target |-> target, spawned |-> TRUE, pending |-> TRUE, meta |-> meta,
   res |-> Null, val |-> Null]

\* A sub-task that returned without spawning anything.
Settled(target, meta, val) ==
  [target |-> target, spawned |-> FALSE, pending |-> FALSE, meta |-> meta,
   res |-> Null, val |-> val]

\* parseFloat(s) || 0 for the outputs the probes print: the longest prefix
\* of digits with at most one "." between them, kept as its decimal writing;
\* "0" when there is none (NaN) and for null.
ParseFloatOr0(res) ==
  IF ~res.ok
    THEN "0"
    ELSE LET s    == res.out
             int  == FirstNotIn(s, Digit, 1)
             frac == IF int <= Len(s) /\ Ch(s, int) = "."
                       THEN FirstNotIn(s, Digit, int + 1)
                       ELSE int
             end  == IF frac = int + 1 THEN int ELSE frac
         IN  IF int = 1 THEN "0" ELSE SubSeq(s, 1, end - 1)

\* mem.split('|') with the fallback for null left out.
PartsOrNoFallback(res) == Split(res.out, "|")

\* mem?.split('|') || ['--', '--', '0']
PartsOr(res) == IF res.ok THEN Split(res.out, "|") ELSE <<"--", "--", "0">>

\* parts[i], undefined (written "undefined") past the end of the array.
At(parts, i) == IF i <= Len(parts) THEN parts[i] ELSE "undefined"

\* uptime?.replace('up ', '') || '--' : the first occurrence of "up " is at
\* the start of what uptime -p prints.
UptimeOf(res) ==
  LET s == IF ~res.ok THEN ""
           ELSE IF StartsWith(res.out, "up ") THEN From(res.out, 4) ELSE res.out
  IN  IF s = "" THEN "--" ELSE s

\* The four commands of getSystem, in the order of its Promise.all.
SystemCommands == <<"top", "free", "df", "uptime">>

SystemTasks == [i \in 1..4 |-> Spawned(SystemCommands[i], [run |-> TRUE])]

\* The result getSystem builds from the four outputs.
SystemResult(cpu, mem, disk, uptime) ==
  LET memParts  == PartsOr(mem)
      diskParts == PartsOr(disk)
  IN  [ cpu         |-> ParseFloatOr0(cpu),
        memoryUsed  |-> At(memParts, 1),
        memoryTotal |-> At(memParts, 2),
        memoryPct   |-> ParseFloatOr0(Output(At(memParts, 3))),
        diskUsed    |-> At(diskParts, 1),
        diskTotal   |-> At(diskParts, 2),
        diskPct     |-> ParseFloatOr0(Output(At(diskParts, 3))),
        uptime      |-> UptimeOf(uptime) ]

\* The gateway entry getServices puts before the configured services.
DefaultService(cfg) ==
  [ name |-> "OpenClaw Gateway", url |-> "",
    port |-> Last(Split(cfg.gatewayUrl, ":")), healthPath |-> "/health" ]

\* svc.url || `http://localhost:${svc.port}${svc.healthPath || '/'}`
ServiceUrl(svc) ==
  IF svc.url # ""
    THEN svc.url
    ELSE "http://localhost:" \o svc.port \o
         (IF svc.healthPath # "" THEN svc.healthPath ELSE "/")

\* A service status that takes only the code 200 for up.
ServiceStatusOnly200(svc, code) ==
  [ name |-> svc.name, port |-> svc.port,
    status |-> IF code = Output("200") THEN "up" ELSE "down" ]

\* What one service's probe task returns for what curl printed.
ServiceStatus(svc, code) ==
  [ name |-> svc.name, port |-> svc.port,
    status |-> IF code = Output("200") \/ code = Output("404") THEN "up" ELSE "down" ]

\* The task of one service with the URL check left out.
ServiceTaskUnchecked(svc) == Spawned(ServiceUrl(svc), svc)

\* The task getServices starts for one service: no probe for an invalid URL.
ServiceTask(svc) ==
  IF ~IsValidUrl(ServiceUrl(svc))
    THEN Settled(ServiceUrl(svc), svc, ServiceStatus(svc, Failed))
    ELSE Spawned(ServiceUrl(svc), svc)

ServicesTasks(cfg) ==
  LET allServices == <<DefaultService(cfg)>> \o cfg.services
  IN  [i \in 1..Len(allServices) |-> ServiceTask(allServices[i])]

\* What one host's task returns for what ping printed.
HostStatus(host, result) ==
  [ name |-> host.name, ip |-> host.ip,
    status |-> IF result.ok THEN "online" ELSE "offline" ]

\* The task getNetwork starts for one host: no probe for an invalid address.
HostTask(host) ==
  IF ~IsValidHostname(host.ip)
    THEN Settled(host.ip, host, HostStatus(host, Failed))
    ELSE Spawned(host.ip, host)

NetworkTasks(cfg) == [i \in 1..Len(cfg.hosts) |-> HostTask(cfg.hosts[i])]

\* The URL getSessions and getCrons fetch.
GatewayUrl(cfg, key) ==
  cfg.gatewayUrl \o (IF key = "sessions" THEN "/api/sessions" ELSE "/api/cron")

\* The sub-tasks a collector starts on a cache miss, in the order of its
\* Promise.all; none when it returns before its first await.
TasksOf(cfg, key) ==
  CASE key = "system"   -> SystemTasks
    [] key = "services" -> ServicesTasks(cfg)
    [] key = "network"  -> NetworkTasks(cfg)
    [] OTHER            -> IF IsValidUrl(GatewayUrl(cfg, key))
                             THEN <<Spawned(GatewayUrl(cfg, key), [curl |-> TRUE])>>
                             ELSE <<>>

\* The fallback of getSessions and getCrons.
EmptyList(key) ==
  IF key = "sessions" THEN [sessions |-> <<>>] ELSE [jobs |-> <<>>]

\* What the gateway may answer, and JSON.parse of each answer: thrown is a
\* SyntaxError; otherwise isNull says the document is null, isArray that the
\* value under sessions or jobs has a map method (false for the number of
\* ListBody), and sessions and jobs are the arrays under those keys (empty
\* when the key is absent, as data.sessions || [] reads it).
SessionsBody == "{\"sessions\":[{\"key\":\"a1\"}]}"

JobsBody == "{\"jobs\":[{\"id\":\"j1\"}]}"

CountBody == "{\"sessions\":5,\"jobs\":5}"

GatewayBodies == {"", "<html>", "null", "{}", SessionsBody, JobsBody, CountBody}

Parsed(isNull, isArray, sessions, jobs) ==
  [thrown |-> FALSE, isNull |-> isNull, isArray |-> isArray,
   sessions |-> sessions, jobs |-> jobs]

JsonParse(out) ==
  CASE out = "null"       -> Parsed(TRUE, FALSE, <<>>, <<>>)
    [] out = "{}"         -> Parsed(FALSE, TRUE, <<>>, <<>>)
    [] out = SessionsBody -> Parsed(FALSE, TRUE, <<[id |-> "a1"]>>, <<>>)
    [] out = JobsBody     -> Parsed(FALSE, TRUE, <<>>, <<[id |-> "j1"]>>)
    [] out = CountBody    -> Parsed(FALSE, FALSE, <<>>, <<>>)
    [] OTHER              -> [thrown |-> TRUE]

\* One item of the gateway's list in the collector's flat shape: id is the
\* item's key (a session) or id (a job), its only field.
Normalized(key, item) ==
  IF key = "sessions"
    THEN [name |-> item.id, channel |-> "unknown", tokens |-> 0]
    ELSE [name |-> item.id, schedule |-> "--"]

\* getSessions / getCrons storing the empty list of a failed fetch.
GatewayResultStoresFallback(key, result) ==
  IF ~result.ok \/ result.out = ""
    THEN [data |-> EmptyList(key), store |-> TRUE]
    ELSE LET json == JsonParse(result.out) IN
         IF json.thrown \/ json.isNull \/ ~json.isArray
           THEN [data |-> EmptyList(key), store |-> TRUE]
           ELSE LET items == IF key = "sessions" THEN json.sessions ELSE json.jobs
                    list  == [i \in 1..Len(items) |-> Normalized(key, items[i])]
                IN  [ data  |-> IF key = "sessions" THEN [sessions |-> list]
                                                   ELSE [jobs |-> list],
                      store |-> TRUE ]

\* getSessions / getCrons after the fetch: the data returned and whether it
\* was stored with setCache. An empty or null result skips the parse; a
\* SyntaxError, or the TypeError of reading a field of null or of calling
\* map on a number, is caught.
GatewayResult(key, result) ==
  IF ~result.ok \/ result.out = ""
    THEN [data |-> EmptyList(key), store |-> FALSE]
    ELSE LET json == JsonParse(result.out) IN
         IF json.thrown \/ json.isNull \/ ~json.isArray
           THEN [data |-> EmptyList(key), store |-> FALSE]
           ELSE LET items == IF key = "sessions" THEN json.sessions ELSE json.jobs
                    list  == [i \in 1..Len(items) |-> Normalized(key, items[i])]
                IN  [ data  |-> IF key = "sessions" THEN [sessions |-> list]
                                                   ELSE [jobs |-> list],
                      store |-> TRUE ]

\* The values of the sub-tasks, in the order they were started.
Vals(tasks) == [i \in 1..Len(tasks) |-> tasks[i].val]

\* A collector that stores its result only when every sub-task succeeded.
JoinResultIfHealthy(key, tasks) ==
  CASE key = "system" ->
         [ data  |-> SystemResult(tasks[1].val, tasks[2].val, tasks[3].val, tasks[4].val),
           store |-> \A i \in 1..4 : tasks[i].val.ok ]
    [] key = "services" ->
         [ data  |-> [services |-> Vals(tasks)],
           store |-> \A i \in 1..Len(tasks) : tasks[i].val.status = "up" ]
    [] key = "network" ->
         [ data  |-> [hosts |-> Vals(tasks)],
           store |-> \A i \in 1..Len(tasks) : tasks[i].val.status = "online" ]
    [] OTHER -> GatewayResult(key, tasks[1].val)

\* The end of a collector once every sub-task has a value: the data it
\* returns and whether it stored them with setCache first.
JoinResult(key, tasks) ==
  CASE key = "system" ->
         [ data  |-> SystemResult(tasks[1].val, tasks[2].val, tasks[3].val, tasks[4].val),
           store |-> TRUE ]
    [] key = "services" -> [data |-> [services |-> Vals(tasks)], store |-> TRUE]
    [] key = "network"  -> [data |-> [hosts |-> Vals(tasks)], store |-> TRUE]
    [] OTHER            -> GatewayResult(key, tasks[1].val)

\* The value a sub-task takes when its probe resolves to result.
TaskValue(key, task, result) ==
  CASE key = "services" -> ServiceStatus(task.meta, result)
    [] key = "network"  -> HostStatus(task.meta, result)
    [] OTHER            -> result

\* What the probe of a sub-task may resolve to.
ProbeResults(key, task) ==
  CASE key = "system" ->
         {Failed, Output(CASE task.target = "top" -> "12.5"
                           [] task.target = "free" -> "1.2G|7.7G|15.5"
                           [] task.target = "df" -> "20G|50G|40%"
                           [] OTHER -> "up 2 hours")}
    [] key = "services" -> {Failed, Output("200"), Output("404"), Output("500")}
    [] key = "network"  -> {Failed, Output("1 packets transmitted, 1 received")}
    [] OTHER            -> {Failed} \cup {Output(b) : b \in GatewayBodies}

AnyPending(tasks) == \E i \in 1..Len(tasks) : tasks[i].pending

\* A collector called at instant t, up to its first await, tasks being the
\* sub-tasks TasksOf gives it: it returns data
\* (done, with store saying whether setCache ran) or suspends on its tasks.
\* hit says the data came from the cache.
\* getNetwork returns before reading the cache when no host is configured;
\* getSessions and getCrons return their fallback for an invalid gateway URL.
CollectStart(cfg, key, entry, t, tasks) ==
  LET cached == GetCached(entry, t)
  IN  IF key = "network" /\ Len(cfg.hosts) = 0
        THEN [done |-> TRUE, hit |-> FALSE, data |-> [hosts |-> <<>>],
              store |-> FALSE, tasks |-> <<>>]
        ELSE IF cached # Null
          THEN [done |-> TRUE, hit |-> TRUE, data |-> cached, store |-> FALSE,
                tasks |-> <<>>]
          ELSE IF Len(tasks) = 0
            THEN [done |-> TRUE, hit |-> FALSE, data |-> EmptyList(key),
                  store |-> FALSE, tasks |-> <<>>]
            ELSE IF AnyPending(tasks)
              THEN [done |-> FALSE, hit |-> FALSE, data |-> Null, store |-> FALSE,
                    tasks |-> tasks]
              ELSE [done |-> TRUE, hit |-> FALSE, data |-> JoinResult(key, tasks).data,
                    store |-> JoinResult(key, tasks).store, tasks |-> tasks]

\* getConfig()
GetConfig(cfg) ==
  [ refreshInterval |-> cfg.refreshInterval,
    dashboardTitle  |-> cfg.dashboardTitle,
    quickLinks      |-> cfg.quickLinks ]

\* ------------------------------------------------------------------------
\* Static file serving
\* ------------------------------------------------------------------------

\* path.normalize of a URL pathname. The URL parser has already resolved the
\* "." and ".." segments, so what is left to do is to collapse runs of "/".
RECURSIVE Normalize(_)
Normalize(path) ==
  IF Len(path) < 2
    THEN path
    ELSE IF Ch(path, 1) = "/" /\ Ch(path, 2) = "/"
      THEN Normalize(From(path, 2))
      ELSE Ch(path, 1) \o Normalize(From(path, 2))

\* path.extname: from the last "." of the last segment; "" when there is
\* none or when the only "." starts the segment.
ExtName(path) ==
  LET base  == Last(Split(path, "/"))
      parts == Split(base, ".")
  IN  IF Len(parts) = 1 \/ (Len(parts) = 2 /\ parts[1] = "")
        THEN ""
        ELSE "." \o Last(parts)

\* CONTENT_TYPES[ext], "" when the extension is not in the table.
ContentType(ext) ==
  CASE ext = ".html" -> "text/html"
    [] ext = ".js"   -> "text/javascript"
    [] ext = ".css"  -> "text/css"
    [] ext = ".json" -> "application/json"
    [] ext = ".png"  -> "image/png"
    [] ext = ".svg"  -> "image/svg+xml"
    [] ext = ".ico"  -> "image/x-icon"
    [] OTHER         -> ""

\* The file a static request names, relative to STATIC_DIR.
StaticFile(pathname) ==
  IF pathname = "/" \/ pathname = "/index.html"
    THEN "/index.html"
    ELSE Normalize(pathname)

\* What fs.readFile gives for a file of STATIC_DIR that exists: config.json
\* holds the configuration, any other file its own content.
FileContent(cfg, file) ==
  IF file = "/config.json" THEN [config |-> cfg] ELSE [file |-> file]

\* ------------------------------------------------------------------------
\* Request handler
\* ------------------------------------------------------------------------

NoHeaders == [h \in {} |-> ""]

Resp(status, headers, body) == [status |-> status, headers |-> headers, body |-> body]

\* The collector of an API path, "" for a path that has none.
CollectorOf(pathname) ==
  CASE pathname = "/api/system"   -> "system"
    [] pathname = "/api/sessions" -> "sessions"
    [] pathname = "/api/services" -> "services"
    [] pathname = "/api/network"  -> "network"
    [] pathname = "/api/crons"    -> "crons"
    [] OTHER                      -> ""

\* new URL(req.url, `http://${req.headers.host}`).pathname for an
\* origin-form request target and a well-formed Host header. A target that
\* starts with "//" is read as a host followed by the path, and the
\* constructor throws when that host is empty. Targets with "." or ".."
\* segments or backslashes are outside this model's inputs.
ParseTarget(target) ==
  LET net     == StartsWith(target, "//")
      hostEnd == FirstIn(target, {"/", "?", "#"}, 3)
      host    == SubSeq(target, 3, hostEnd - 1)
      rest    == IF net THEN From(target, hostEnd) ELSE target
      path    == SubSeq(rest, 1, FirstIn(rest, {"?", "#"}, 1) - 1)
  IN  IF net /\ host = ""
        THEN [ok |-> FALSE, pathname |-> ""]
        ELSE [ok |-> TRUE, pathname |-> IF path = "" THEN "/" ELSE path]

\* The 429 answer of a rate-limited request.
TooManyRequests ==
  Resp(429, ("Content-Type" :> "application/json" @@ "Retry-After" :> "60"),
       [error |-> "Too many requests"])

\* The answers of the router.
Preflight(cors) ==
  [steps |-> <<"preflight">>, kind |-> "respond", resp |-> Resp(204, cors, Null)]

Health(t) ==
  [steps |-> <<"health">>, kind |-> "respond",
   resp |-> Resp(200, ("Content-Type" :> "application/json"),
                 [status |-> "ok", uptime |-> t \div 1000])]

Unauthorized(cors) ==
  [steps |-> <<"auth">>, kind |-> "respond",
   resp |-> Resp(401, cors, [error |-> "Unauthorized"])]

Collect(key, cors) ==
  [steps |-> <<"auth", "collector">>, kind |-> "collect", key |-> key,
   headers |-> cors]

Config(cfg, cors) ==
  [steps |-> <<"auth", "config">>, kind |-> "respond",
   resp |-> Resp(200, cors, GetConfig(cfg))]

NotFound(cors) ==
  [steps |-> <<"auth", "notFound">>, kind |-> "respond",
   resp |-> Resp(404, cors, [error |-> "Not found"])]

Static(pathname) ==
  [steps |-> <<"static">>, kind |-> "static", file |-> StaticFile(pathname)]

\* A router that asks for credentials only on the collector paths.
RouteConfigUngated(cfg, req, pathname, t) ==
  LET cors == GetCorsHeaders(cfg.allowedOrigins, req.origin) IN
  IF req.method = "OPTIONS" THEN Preflight(cors)
  ELSE IF pathname = "/health" THEN Health(t)
  ELSE IF pathname = "/api/config" THEN Config(cfg, cors)
  ELSE IF StartsWith(pathname, "/api/")
    THEN IF ~CheckAuth(cfg.token, req.auth) THEN Unauthorized(cors)
         ELSE IF CollectorOf(pathname) # "" THEN Collect(CollectorOf(pathname), cors)
         ELSE NotFound(cors)
  ELSE Static(pathname)

\* A router that answers the preflight only after the health path and the
\* auth gate.
RoutePreflightLast(cfg, req, pathname, t) ==
  LET cors == GetCorsHeaders(cfg.allowedOrigins, req.origin) IN
  IF pathname = "/health" THEN Health(t)
  ELSE IF StartsWith(pathname, "/api/") /\ ~CheckAuth(cfg.token, req.auth)
    THEN Unauthorized(cors)
  ELSE IF req.method = "OPTIONS" THEN Preflight(cors)
  ELSE IF StartsWith(pathname, "/api/")
    THEN IF CollectorOf(pathname) # "" THEN Collect(CollectorOf(pathname), cors)
         ELSE IF pathname = "/api/config" THEN Config(cfg, cors)
         ELSE NotFound(cors)
  ELSE Static(pathname)

\* A router that matches the path before it asks for credentials: an
\* unknown API path is answered 404 to anybody.
RouteMatchBeforeAuth(cfg, req, pathname, t) ==
  LET cors == GetCorsHeaders(cfg.allowedOrigins, req.origin) IN
  IF req.method = "OPTIONS" THEN Preflight(cors)
  ELSE IF pathname = "/health" THEN Health(t)
  ELSE IF StartsWith(pathname, "/api/")
    THEN IF CollectorOf(pathname) = "" /\ pathname # "/api/config"
           THEN [NotFound(cors) EXCEPT !.steps = <<"notFound">>]
         ELSE IF ~CheckAuth(cfg.token, req.auth) THEN Unauthorized(cors)
         ELSE IF CollectorOf(pathname) # "" THEN Collect(CollectorOf(pathname), cors)
         ELSE Config(cfg, cors)
  ELSE Static(pathname)

\* A router that asks for credentials before it looks at the health path.
RouteHealthGated(cfg, req, pathname, t) ==
  LET cors == GetCorsHeaders(cfg.allowedOrigins, req.origin) IN
  IF req.method = "OPTIONS" THEN Preflight(cors)
  ELSE IF (pathname = "/health" \/ StartsWith(pathname, "/api/"))
          /\ ~CheckAuth(cfg.token, req.auth) THEN Unauthorized(cors)
  ELSE IF pathname = "/health" THEN Health(t)
  ELSE IF StartsWith(pathname, "/api/")
    THEN IF CollectorOf(pathname) # "" THEN Collect(CollectorOf(pathname), cors)
         ELSE IF pathname = "/api/config" THEN Config(cfg, cors)
         ELSE NotFound(cors)
  ELSE Static(pathname)

\* handleRequest from the preflight check on, for a request the rate limiter
\* admitted: the steps it takes and where they lead, which is a response
\* (respond), a collector to call (collect) or a file to serve (static).
\* t is the instant, read by process.uptime().
Route(cfg, req, pathname, t) ==
  LET cors == GetCorsHeaders(cfg.allowedOrigins, req.origin) IN
  IF req.method = "OPTIONS" THEN Preflight(cors)
  ELSE IF pathname = "/health" THEN Health(t)
  ELSE IF StartsWith(pathname, "/api/")
    THEN IF ~CheckAuth(cfg.token, req.auth) THEN Unauthorized(cors)
         ELSE IF CollectorOf(pathname) # "" THEN Collect(CollectorOf(pathname), cors)
         ELSE IF pathname = "/api/config" THEN Config(cfg, cors)
         ELSE NotFound(cors)
  ELSE Static(pathname)

\* handleRequest calling the collector of a rate-limited request all the
\* same.
PipelineCollectsWhenLimited(cfg, req, pathname, limited, t) ==
  LET route == Route(cfg, req, pathname, t) IN
  IF limited /\ route.kind # "collect"
    THEN [steps |-> <<"rateLimit">>, kind |-> "respond", resp |-> TooManyRequests]
    ELSE [route EXCEPT !.steps = <<"rateLimit">> \o route.steps]

\* handleRequest after the URL is parsed, up to its first await: limited is
\* what isRateLimited(clientIp) returned.
Pipeline(cfg, req, pathname, limited, t) ==
  IF limited
    THEN [steps |-> <<"rateLimit">>, kind |-> "respond", resp |-> TooManyRequests]
    ELSE LET route == Route(cfg, req, pathname, t) IN
         [route EXCEPT !.steps = <<"rateLimit">> \o route.steps]

\* ------------------------------------------------------------------------
\* The inputs of the model
\* ------------------------------------------------------------------------

\* Authorization headers: a scheme, spaces, a value, and what may follow it.
AuthHeaders ==
  {NoHeader} \cup
  { Header(w1 \o s1 \o w2 \o rest) :
      w1 \in {"Bearer", "Basic", "bearer", ""},
      s1 \in {" ", "  ", ""},
      w2 \in {"secret123", "secret1234", "wrong", ""},
      rest \in {"", " x", " secret123"} }

AuthConfigs ==
  {DEFAULT_CONFIG, [DEFAULT_CONFIG EXCEPT !.token = "secret123"]}

\* With or without a token.
RouterConfigs ==
  { DEFAULT_CONFIG,
    [DEFAULT_CONFIG EXCEPT !.token = "secret123", !.dashboardTitle = "Ops"] }

\* A request of the first client that carries no Origin header.
Req(method, target, auth) ==
  [ip |-> "10.0.0.1", method |-> method, target |-> target, auth |-> auth,
   origin |-> NoHeader]

\* GETs for the health path, for API paths with and without a collector and
\* for static files with and without an allowed extension, preflights, and
\* a target the URL constructor rejects; without credentials, with the
\* right ones and with wrong ones.
RouterRequests ==
  { Req("GET", "/health", a) : a \in {NoHeader, Header("Bearer wrong")} } \cup
  { Req("GET", t, a) :
      t \in {"/api/config", "/api/sessions", "/api/nope"},
      a \in {NoHeader, Header("Bearer secret123"), Header("Bearer wrong")} } \cup
  { Req("GET", "/api/sessions/", a) : a \in {NoHeader, Header("Bearer secret123")} } \cup
  { Req("GET", t, NoHeader) : t \in {"/index.html", "/config.json", "/notes.txt", "//"} } \cup
  { Req("OPTIONS", t, NoHeader) : t \in {"/health", "/api/sessions", "/index.html"} }

RouterInstants == {0, CACHE_TTL}

\* The most sub-tasks a collector of this model starts.
MaxTasks == 4

MyApp == [name |-> "My App", url |-> "", port |-> "3000", healthPath |-> "/health"]

BadService == [name |-> "Files", url |-> "ftp://files.local", port |-> "", healthPath |-> ""]

\* The defaults; a configuration with a valid and an invalid service and a
\* valid and an invalid host; and one whose gateway URL has no scheme, which
\* makes the URLs of sessions, crons and the gateway's health check invalid.
CollectConfigs ==
  { DEFAULT_CONFIG,
    [DEFAULT_CONFIG EXCEPT
       !.services = <<MyApp, BadService>>,
       !.hosts = << [name |-> "Server 1", ip |-> "192.168.1.10"],
                    [name |-> "Lab", ip |-> "lab; reboot"] >>],
    [DEFAULT_CONFIG EXCEPT
       !.gatewayUrl = "localhost",
       !.services = <<BadService>>,
       !.hosts = << [name |-> "Lab", ip |-> "-lab"] >>] }

CollectRequests ==
  { Req("GET", t, NoHeader) :
      t \in {"/api/system", "/api/sessions", "/api/services", "/api/network",
             "/api/crons", "/api/config"} }

CollectInstants == {0, CACHE_TTL}

\* Requests that arrive in a burst, for the collectors that run one probe
\* under the default configuration, and what their probes may resolve to.
BurstRequests ==
  { Req("GET", t, NoHeader) : t \in {"/api/sessions", "/api/crons", "/api/services"} }

BurstResults == {Failed, Output(SessionsBody), Output("200")}

AllResults ==
  {Failed} \cup
  { Output(o) : o \in GatewayBodies \cup
      {"12.5", "1.2G|7.7G|15.5", "20G|50G|40%", "up 2 hours", "200", "404", "500",
       "1 packets transmitted, 1 received"} }

\* ------------------------------------------------------------------------
\* The pure steps, evaluated once for every input of the model
\* ------------------------------------------------------------------------

AllConfigs == AuthConfigs \cup RouterConfigs \cup CollectConfigs

AllRequests == RouterRequests \cup CollectRequests \cup BurstRequests

\* The delay of the forced exit that shutdown arms.
GRACE == 10000

\* Instants around a shutdown signalled at 0 or at CACHE_TTL.
ShutdownInstants == {0, CACHE_TTL, GRACE, CACHE_TTL + GRACE}

AllInstants ==
  CacheInstants \cup RateInstants \cup RouterInstants \cup CollectInstants
    \cup ShutdownInstants

\* ParseTarget of every request target.
ParsedTarget == [target \in {r.target : r \in AllRequests} |-> ParseTarget(target)]

\* Pipeline of every request whose target parses.
PipelineOf ==
  [ cfg \in AllConfigs |->
    [ req \in {r \in AllRequests : ParsedTarget[r.target].ok} |->
      [ limited \in BOOLEAN |->
        [ t \in AllInstants |->
            Pipeline(cfg, req, ParsedTarget[req.target].pathname, limited, t) ] ] ] ]

\* TasksOf of every collector.
TasksTable == [cfg \in AllConfigs |-> [key \in MetricKeys |-> TasksOf(cfg, key)]]

\* CONTENT_TYPES[path.extname(filePath)] of every file a request names.
ContentTypeOf ==
  [ file \in {StaticFile(ParsedTarget[r.target].pathname) :
                r \in {q \in AllRequests : ParsedTarget[q.target].ok}} |->
      ContentType(ExtName(file)) ]

\* ------------------------------------------------------------------------
\* Request handler: the handlers as actions
\* ------------------------------------------------------------------------

\* The slots among the first n that are free, and the one a request takes.
FreeSlots(n) == {i \in 1..n : ~reqs[i].busy}

NextSlot(n) == CHOOSE i \in FreeSlots(n) : \A j \in FreeSlots(n) : i <= j

\* The collections of one metric that are suspended on their probes.
InFlight(key) ==
  {i \in 1..MaxInFlight : reqs[i].busy /\ reqs[i].kind = "collect" /\ reqs[i].key = key}

\* What a handler run records about the collector it called.
ColInfo(key, col) ==
  [key |-> key, was |-> cache[key], hit |-> col.hit, done |-> col.done,
   store |-> col.store, data |-> col.data, tasks |-> col.tasks]

\* The cache and its history after setCache(key, data) at the current instant.
Stored(key, data) ==
  /\ cache' = [cache EXCEPT ![key] = SetCache(data, now)]
  /\ written' = [written EXCEPT ![key] = [data |-> data, time |-> now]]

\* One request given to handleRequest, from its first line to its response
\* or to its first suspension. The environment sends it while the client's
\* window counts fewer than cap requests, and sends none that would suspend
\* while flight requests are already suspended.
HandleRequest(req, cap, flight) ==
  /\ alive
  /\ MayArrive(req.ip, cap)
  /\ LET parsed == ParsedTarget[req.target] IN
     IF ~parsed.ok
       THEN \* new URL throws: the promise of handleRequest is rejected and
            \* nobody handles it, which ends the process.
            /\ alive' = FALSE
            /\ ev' = [ type |-> "throw", req |-> req, at |-> now,
                       rank |-> WinAfter(win[req.ip], now).n, counted |-> FALSE,
                       steps |-> <<"url">>, suspended |-> FALSE, resp |-> Null ]
            /\ UNCHANGED <<now, config, auxVars, adm, rateVars, au, cacheVars, reqs>>
       ELSE
         LET r     == IsRateLimited(rateMap[req.ip], now)
             p     == PipelineOf[config][req][r.ret][now]
             col   == IF p.kind = "collect"
                        THEN CollectStart(config, p.key, cache[p.key], now,
                                          TasksTable[config][p.key])
                        ELSE Null
             ctype == IF p.kind = "static" THEN ContentTypeOf[p.file] ELSE ""
             waits == \/ (p.kind = "collect" /\ ~col.done)
                      \/ (p.kind = "static" /\ ctype # "")
             resp  == CASE p.kind = "respond" -> p.resp
                        [] p.kind = "collect" ->
                             IF col.done THEN Resp(200, p.headers, col.data) ELSE Null
                        [] OTHER ->
                             IF ctype = ""
                               THEN Resp(403, NoHeaders, [text |-> "Forbidden"])
                               ELSE Null
         IN  /\ waits => FreeSlots(flight) # {}
             /\ rateMap' = [rateMap EXCEPT ![req.ip] = r.entry]
             /\ win' = [win EXCEPT ![req.ip] = WinAfter(win[req.ip], now)]
             /\ IF p.kind = "collect" /\ col.done /\ col.store
                  THEN Stored(p.key, col.data)
                  ELSE UNCHANGED <<cache, written>>
             /\ reqs' = IF ~waits
                          THEN reqs
                          ELSE [reqs EXCEPT ![NextSlot(flight)] =
                                  IF p.kind = "collect"
                                    THEN [busy |-> TRUE, kind |-> "collect", key |-> p.key,
                                          headers |-> p.headers, tasks |-> col.tasks]
                                    ELSE [busy |-> TRUE, kind |-> "static",
                                          file |-> p.file, ctype |-> ctype,
                                          auth |-> req.auth]]
             /\ ev' = [ type |-> "request", req |-> req, at |-> now,
                        pathname |-> parsed.pathname,
                        rank |-> WinAfter(win[req.ip], now).n,
                        counted |-> r.entry # rateMap[req.ip], limited |-> r.ret,
                        steps |-> p.steps, suspended |-> waits, resp |-> resp,
                        col |-> IF p.kind = "collect" THEN ColInfo(p.key, col) ELSE Null,
                        before |-> IF p.kind = "collect"
                                     THEN Cardinality(InFlight(p.key)) ELSE 0 ]
             /\ UNCHANGED <<now, config, auxVars, adm, rl, au, got, alive>>

\* The probe of sub-task j of the collection in slot i resolves to result
\* (null for a failure or a timeout), and the value lands in place k of the
\* array Promise.all resolves to. When it was the last one pending the
\* collector joins the values, stores and returns its result, and
\* handleRequest answers 200.
ProbeSettles(i, j, k, result) ==
  /\ alive
  /\ reqs[i].busy
  /\ reqs[i].kind = "collect"
  /\ j \in 1..Len(reqs[i].tasks)
  /\ reqs[i].tasks[j].pending
  /\ result \in ProbeResults(reqs[i].key, reqs[i].tasks[j])
  /\ LET key   == reqs[i].key
         tasks == [reqs[i].tasks EXCEPT
                     ![k].pending = FALSE,
                     ![k].res = result,
                     ![k].val = TaskValue(key, reqs[i].tasks[k], result)]
         join  == JoinResult(key, tasks)
     IN  IF AnyPending(tasks)
           THEN /\ reqs' = [reqs EXCEPT ![i].tasks = tasks]
                /\ ev' = [type |-> "probe", key |-> key]
                /\ UNCHANGED <<cache, written>>
           ELSE /\ reqs' = [reqs EXCEPT ![i] = Idle]
                /\ IF join.store
                     THEN Stored(key, join.data)
                     ELSE UNCHANGED <<cache, written>>
                /\ ev' = [ type |-> "completion", slot |-> i, at |-> now,
                           last |-> j,
                           resp |-> Resp(200, reqs[i].headers, join.data),
                           col |-> ColInfo(key, [hit |-> FALSE, done |-> TRUE,
                                                 store |-> join.store,
                                                 data |-> join.data, tasks |-> tasks]) ]
  /\ UNCHANGED <<now, config, auxVars, adm, rateVars, au, got, alive>>

\* The first sub-task of the collection in slot i that is still pending.
FirstPending(i) ==
  CHOOSE k \in 1..Len(reqs[i].tasks) :
    /\ reqs[i].tasks[k].pending
    /\ \A h \in 1..(k - 1) : ~reqs[i].tasks[h].pending

\* Results collected in the order the probes complete: each value takes the
\* first place still empty.
ProbeDoneByArrival(i, j, result) == ProbeSettles(i, j, FirstPending(i), result)

\* Promise.all keeps the order of its input: the value of sub-task j lands
\* in place j whenever its probe completes.
ProbeDone(i, j, result) == ProbeSettles(i, j, j, result)

\* fs.readFile calls back for the static request in slot i: the file was
\* read, or it was not (it does not exist).
FileDone(i, found) ==
  /\ alive
  /\ reqs[i].busy
  /\ reqs[i].kind = "static"
  /\ reqs' = [reqs EXCEPT ![i] = Idle]
  /\ ev' = [ type |-> "file", slot |-> i, file |-> reqs[i].file,
             auth |-> reqs[i].auth,
             resp |-> IF found
                        THEN Resp(200, ("Content-Type" :> reqs[i].ctype),
                                  FileContent(config, reqs[i].file))
                        ELSE Resp(404, NoHeaders, [text |-> "Not found"]) ]
  /\ UNCHANGED <<now, config, auxVars, adm, rateVars, au, cacheVars, alive>>

\* ------------------------------------------------------------------------
\* The auth gate, called directly on every header of a bounded set
\* ------------------------------------------------------------------------

\* A direct call checkAuth({headers: {authorization: h}}), as the tests make it.
CheckAuthCall(h) ==
  /\ au' = [called |-> TRUE, header |-> h, ret |-> CheckAuth(config.token, h)]
  /\ UNCHANGED <<now, config, auxVars, adm, rateVars, cacheVars, reqVars>>

InitAuth == InitState(AuthConfigs)

NextAuth == \E h \in AuthHeaders : CheckAuthCall(h)

SpecAuth == InitAuth /\ [][NextAuth]_vars

\* C4: checkAuth returns true for every request when no token is
\* configured; with a token configured it returns true only if the
\* Authorization header is exactly "Bearer <token>", and false for an absent
\* header and for every other string.
C4_ExactBearerOnly ==
  au.called =>
    IF config.token = ""
      THEN au.ret
      ELSE au.ret => (au.header.has /\ au.header.val = "Bearer " \o config.token)

\* ------------------------------------------------------------------------
\* The cache, called directly
\* ------------------------------------------------------------------------

\* The values the direct calls store: the object of the tests, another
\* object, and null.
CacheValues == {[foo |-> "bar"], [foo |-> "baz"], Null}

\* A direct call setCache(k, v).
SetCacheCall(k, v) ==
  /\ cache' = [cache EXCEPT ![k] = SetCache(v, now)]
  /\ written' = [written EXCEPT ![k] = [data |-> v, time |-> now]]
  /\ UNCHANGED <<now, config, auxVars, adm, rateVars, au, got, reqVars>>

\* A direct call getCached(k).
GetCachedCall(k) ==
  /\ got' = [called |-> TRUE, key |-> k, at |-> now, wrote |-> written[k],
             ret |-> GetCached(cache[k], now)]
  /\ UNCHANGED <<now, config, auxVars, adm, rateVars, au, cache, written, reqVars>>

InitCache == InitState({DEFAULT_CONFIG})

NextCache ==
  \/ \E k \in {"mykey", "system"}, v \in CacheValues : SetCacheCall(k, v)
  \/ \E k \in {"mykey", "system"} : GetCachedCall(k)
  \/ Advance(CacheInstants)

SpecCache == InitCache /\ [][NextCache]_vars

\* C7: getCached(key) returns the value of the last setCache(key, value) when
\* there is one and it was made less than CACHE_TTL ago, and null otherwise
\* (key never set, or the write is CACHE_TTL old or older).
C7_CacheRoundTrip ==
  got.called =>
    got.ret = IF got.wrote # NoEntry /\ got.at - got.wrote.time < CACHE_TTL
                THEN got.wrote.data
                ELSE Null

\* setCache(k, v) immediately followed by getCached(k) returned v.
C7_Witness ==
  /\ got.called
  /\ got.wrote # NoEntry
  /\ got.wrote.time = got.at
  /\ got.ret = [foo |-> "bar"]

\* ------------------------------------------------------------------------
\* The server under requests of every kind, up to the rate limit
\* ------------------------------------------------------------------------

Init == InitState(RouterConfigs)

Next ==
  \/ \E req \in RouterRequests : HandleRequest(req, RATE_LIMIT + MaxOver, 1)
  \/ \E result \in {Failed, Output(SessionsBody)} : ProbeDone(1, 1, result)
  \/ \E found \in BOOLEAN : FileDone(1, found)
  \/ Advance(RouterInstants)

Spec == Init /\ [][Next]_vars

\* C3: handleRequest runs the rate limiter before any other step, so every
\* request it is given is counted against its client's window, and a request
\* that is the 61st or a later one of its window is answered 429 with
\* Retry-After: 60 and {error: 'Too many requests'} and takes no other step.
C3_RateLimitBeforeAnyStep ==
  ev.type \in {"request", "throw"} =>
    /\ ev.counted
    /\ ev.steps[1] = "rateLimit"
    /\ ev.rank > RATE_LIMIT =>
         /\ ev.resp = TooManyRequests
         /\ ev.steps = <<"rateLimit">>
         /\ ~ev.suspended

\* A request the rate limiter admitted, for an API path, that is no preflight.
ApiRequest ==
  /\ ev.type = "request"
  /\ ~ev.limited
  /\ ev.req.method # "OPTIONS"
  /\ StartsWith(ev.pathname, "/api/")

\* C5: an admitted non-OPTIONS request for a path under /api/ is answered
\* 401 {error: 'Unauthorized'} when a token is configured and checkAuth
\* fails; otherwise its answer is never 401, and for /api/config it is 200
\* with the configured dashboardTitle.
C5_AuthGateOnApi ==
  /\ ApiRequest =>
       IF config.token # "" /\ ~CheckAuth(config.token, ev.req.auth)
         THEN /\ ~ev.suspended
              /\ ev.resp.status = 401
              /\ ev.resp.body = [error |-> "Unauthorized"]
         ELSE /\ ~ev.suspended => ev.resp.status # 401
              /\ ev.pathname = "/api/config" =>
                   /\ ~ev.suspended
                   /\ ev.resp.status = 200
                   /\ ev.resp.body.dashboardTitle = config.dashboardTitle
  /\ ev.type = "completion" => ev.resp.status # 401

\* With the token secret123 configured, GET /api/config with that token was
\* answered 200 with the configured title.
C5_Witness ==
  /\ ApiRequest
  /\ config.token = "secret123"
  /\ ev.pathname = "/api/config"
  /\ ev.req.auth = Header("Bearer secret123")
  /\ ev.resp.status = 200
  /\ ev.resp.body.dashboardTitle = "Ops"

\* C6: an admitted GET /health is answered 200 with status 'ok', whatever
\* the configured token and the Authorization header.
C6_HealthNeverGated ==
  (ev.type = "request" /\ ~ev.limited /\ ev.req.method = "GET"
     /\ ev.pathname = "/health") =>
    /\ ~ev.suspended
    /\ ev.resp.status = 200
    /\ ev.resp.body.status = "ok"

\* With a token configured, GET /health with a wrong token was answered 200.
C6_Witness ==
  /\ ev.type = "request"
  /\ ~ev.limited
  /\ ev.pathname = "/health"
  /\ config.token = "secret123"
  /\ ev.req.auth = Header("Bearer wrong")
  /\ ev.resp.status = 200

\* ------------------------------------------------------------------------
\* The collectors, one collection at a time
\* ------------------------------------------------------------------------

InitCollect == InitState(CollectConfigs)

NextCollect ==
  \/ \E req \in CollectRequests : HandleRequest(req, MaxReqs, 1)
  \/ \E j \in 1..MaxTasks, result \in AllResults : ProbeDone(1, j, result)
  \/ Advance(CollectInstants)

SpecCollect == InitCollect /\ [][NextCollect]_vars

GatewayKeys == {"sessions", "crons"}

\* A handler run in which a collector ran to its end without a cache hit.
Collected ==
  /\ ev.type \in {"request", "completion"}
  /\ ev.col # Null
  /\ ev.col.done
  /\ ~ev.col.hit

\* The collection failed: a sub-task was refused by its validator or its
\* probe resolved to null; for the gateway collectors also an empty answer or
\* one that does not parse to a document with a list.
CollectionFailed(col) ==
  IF col.key \in GatewayKeys
    THEN \/ Len(col.tasks) = 0
         \/ ~col.tasks[1].res.ok
         \/ col.tasks[1].res.out = ""
         \/ JsonParse(col.tasks[1].res.out).thrown
         \/ JsonParse(col.tasks[1].res.out).isNull
         \/ ~JsonParse(col.tasks[1].res.out).isArray
    ELSE \E j \in 1..Len(col.tasks) :
           IF col.tasks[j].spawned THEN ~col.tasks[j].res.ok ELSE TRUE

ProbeTargets ==
  UNION { {TasksTable[cfg][key][j].target : j \in 1..Len(TasksTable[cfg][key])} :
            cfg \in AllConfigs, key \in MetricKeys \ {"system"} }

Validated ==
  [target \in ProbeTargets |->
     [url |-> IsValidUrl(target), host |-> IsValidHostname(target)]]

GatewayValid ==
  [cfg \in AllConfigs |-> [key \in GatewayKeys |-> IsValidUrl(GatewayUrl(cfg, key))]]

PassedValidator(key, target) ==
  IF key = "network" THEN Validated[target].host ELSE Validated[target].url

\* C10: every target a probe process was spawned for passed its validator
\* (isValidUrl for services and the gateway, isValidHostname for hosts); a
\* service or host that fails it is reported down or offline without a
\* probe, and sessions and crons return the empty list without a probe when
\* the gateway URL fails it.
C10_OnlyValidatedTargetsProbed ==
  /\ \A i \in 1..MaxInFlight :
       (reqs[i].busy /\ reqs[i].kind = "collect" /\ reqs[i].key # "system") =>
         \A j \in 1..Len(reqs[i].tasks) :
           reqs[i].tasks[j].spawned =>
             PassedValidator(reqs[i].key, reqs[i].tasks[j].target)
  /\ (Collected /\ ev.col.key \in {"services", "network"}) =>
       \A j \in 1..Len(ev.col.tasks) :
         LET task == ev.col.tasks[j] IN
         ~PassedValidator(ev.col.key, task.target) =>
           /\ ~task.spawned
           /\ task.res = Null
           /\ task.val.status = IF ev.col.key = "services" THEN "down" ELSE "offline"
  /\ (ev.type = "request" /\ ev.col # Null /\ ~ev.col.hit
        /\ ev.col.key \in GatewayKeys /\ ~GatewayValid[config][ev.col.key]) =>
       /\ ev.col.done
       /\ ev.col.tasks = <<>>
       /\ ev.col.data = EmptyList(ev.col.key)

\* getServices is suspended on the probe of a valid service while the
\* service with the ftp URL is already reported down without a probe.
C10_Witness ==
  /\ reqs[1].busy
  /\ reqs[1].kind = "collect"
  /\ reqs[1].key = "services"
  /\ \E j \in 1..Len(reqs[1].tasks) :
       reqs[1].tasks[j].spawned /\ reqs[1].tasks[j].pending
  /\ \E j \in 1..Len(reqs[1].tasks) :
       /\ ~reqs[1].tasks[j].spawned
       /\ reqs[1].tasks[j].target = "ftp://files.local"
       /\ reqs[1].tasks[j].val.status = "down"

\* ------------------------------------------------------------------------
\* The collectors under concurrent requests
\* ------------------------------------------------------------------------

InitBurst == InitState({DEFAULT_CONFIG})

NextBurst ==
  \/ \E req \in BurstRequests : HandleRequest(req, MaxReqs, MaxInFlight)
  \/ \E i \in 1..MaxInFlight, j \in 1..MaxTasks, result \in BurstResults :
       ProbeDone(i, j, result)
  \/ Advance(CollectInstants)

SpecBurst == InitBurst /\ [][NextBurst]_vars

\* C9 as stated: at most two collections of one metric are in flight at the
\* same time.
C9_AtMostOneDuplicate ==
  \A key \in MetricKeys : Cardinality(InFlight(key)) <= 2

\* The entry is absent or stale at instant t.
Miss(entry, t) == entry = NoEntry \/ t - entry.time >= CACHE_TTL

\* C9 as amended: every admitted request for a metric that finds the
\* metric's entry absent or stale, and whose collector has a probe to run,
\* starts a collection of its own, whatever the number already in flight.
C9_EveryMissCollects ==
  (ev.type = "request" /\ ev.col # Null /\ Miss(ev.col.was, ev.at)
     /\ \E j \in 1..Len(TasksTable[config][ev.col.key]) :
          TasksTable[config][ev.col.key][j].spawned) =>
    /\ ev.suspended
    /\ Cardinality(InFlight(ev.col.key)) = ev.before + 1

\* A third request missed the cache while two collections of the same metric
\* were in flight, and started the third.
C9_Witness ==
  /\ ev.type = "request"
  /\ ev.col # Null
  /\ ev.before = 2
  /\ Cardinality(InFlight(ev.col.key)) = 3


\* ------------------------------------------------------------------------
\* The validators, called directly
\* ------------------------------------------------------------------------

\* Host names and addresses: what the tests pass, and every string of a
\* first, a middle and a last piece, each empty, allowed or not allowed.
HostnamePieces ==
  {"", "a", "Z", "9", "host", ".", "-", "_", " ", ";", "|", "&", "$", "/", "\n"}

HostnameInputs ==
  {"server1", "192.168.1.1", "host.example.com", "; rm -rf /", ".hidden", "-flag"} \cup
  { a \o b \o c : a \in HostnamePieces, b \in {"", "x", ".", "-", " ", ";", "$"},
                  c \in HostnamePieces }

\* A direct call isValidHostname(s), as the tests make it: one call in a
\* behaviour, since the function reads and writes no state.
IsValidHostnameCall(s) ==
  /\ call = NoCall
  /\ call' = [called |-> TRUE, fn |-> "isValidHostname", arg |-> s,
              ret |-> IsValidHostname(s)]
  /\ UNCHANGED <<now, config, rateVars, adm, au, cacheVars, reqVars, runs, proc>>

InitHost == InitState({DEFAULT_CONFIG})

NextHost == \E s \in HostnameInputs : IsValidHostnameCall(s)

SpecHost == InitHost /\ [][NextHost]_vars

\* The characters of [A-Za-z0-9], written out.
Alphanumerics ==
  { "a", "b", "c", "d", "e", "f", "g", "h", "i", "j", "k", "l", "m", "n", "o",
    "p", "q", "r", "s", "t", "u", "v", "w", "x", "y", "z",
    "A", "B", "C", "D", "E", "F", "G", "H", "I", "J", "K", "L", "M", "N", "O",
    "P", "Q", "R", "S", "T", "U", "V", "W", "X", "Y", "Z",
    "0", "1", "2", "3", "4", "5", "6", "7", "8", "9" }

\* The characters of s.
Chars(s) == {SubSeq(s, i, i) : i \in 1..Len(s)}

\* C11: isValidHostname(s) is true exactly when s is not empty, starts with
\* a character of [A-Za-z0-9] and has only characters of [A-Za-z0-9._-]; so
\* the empty string, a string that starts with '.' or '-' and a string with
\* a space, ';', '|', '&' or '$' are rejected (a backtick, which a string of
\* this module cannot hold, is one more character outside the class).
C11_HostnameAllowlist ==
  (call.called /\ call.fn = "isValidHostname") =>
    LET s == call.arg IN
    /\ call.ret <=> /\ s # ""
                    /\ SubSeq(s, 1, 1) \in Alphanumerics
                    /\ Chars(s) \subseteq Alphanumerics \cup {".", "_", "-"}
    /\ (s = "" \/ SubSeq(s, 1, 1) \in {".", "-"}
          \/ Chars(s) \cap {" ", ";", "|", "&", "$"} # {}) => ~call.ret

\* A name that starts well and carries a shell metacharacter was rejected.
C11_Witness ==
  /\ call.called
  /\ call.fn = "isValidHostname"
  /\ call.arg = "host;$"
  /\ ~call.ret


\* ------------------------------------------------------------------------
\* The CORS helper, called directly
\* ------------------------------------------------------------------------

\* Allowlists of at most two entries, the wildcard among them.
AllowedEntries == {"*", "https://a.example", "https://b.example"}

Allowlists ==
  {<<>>} \cup {<<a>> : a \in AllowedEntries} \cup
  {<<a, b>> : a \in AllowedEntries, b \in AllowedEntries}

CorsConfigs == {[DEFAULT_CONFIG EXCEPT !.allowedOrigins = l] : l \in Allowlists}

\* No Origin header, an empty one, listed origins, and origins that are not
\* listed but look like listed ones.
Origins ==
  { NoHeader, Header(""), Header("https://a.example"), Header("https://b.example"),
    Header("https://evil.example"), Header("https://A.example"),
    Header("https://a.example.evil.example"), Header("null"), Header("*") }

\* A direct call getCorsHeaders({headers: {origin}}), one in a behaviour.
GetCorsHeadersCall(origin) ==
  /\ call = NoCall
  /\ call' = [called |-> TRUE, fn |-> "getCorsHeaders", origin |-> origin,
              ret |-> GetCorsHeaders(config.allowedOrigins, origin)]
  /\ UNCHANGED <<now, config, rateVars, adm, au, cacheVars, reqVars, runs, proc>>

InitCors == InitState(CorsConfigs)

NextCors == \E origin \in Origins : GetCorsHeadersCall(origin)

SpecCors == InitCors /\ [][NextCors]_vars

\* The entries of a list.
Entries(list) == {list[i] : i \in 1..Len(list)}

\* C12: getCorsHeaders always gives Access-Control-Allow-Methods
\* 'GET, OPTIONS' and Access-Control-Allow-Headers 'Content-Type,
\* Authorization'; Access-Control-Allow-Origin is the request's Origin for
\* an empty allowlist, '*' for an allowlist with '*', the request's Origin
\* when the allowlist holds it, and is left out otherwise (also when the
\* request has no Origin to give back); an origin outside a non-empty
\* allowlist without wildcard is never echoed.
C12_CorsPolicy ==
  (call.called /\ call.fn = "getCorsHeaders") =>
    LET h       == call.ret
        allowed == Entries(config.allowedOrigins)
        sent    == call.origin.has /\ call.origin.val # ""
        name    == "Access-Control-Allow-Origin"
    IN  /\ h["Access-Control-Allow-Methods"] = "GET, OPTIONS"
        /\ h["Access-Control-Allow-Headers"] = "Content-Type, Authorization"
        /\ IF allowed = {}
             THEN IF sent THEN name \in DOMAIN h /\ h[name] = call.origin.val
                          ELSE name \notin DOMAIN h
             ELSE IF "*" \in allowed
               THEN name \in DOMAIN h /\ h[name] = "*"
               ELSE IF sent /\ call.origin.val \in allowed
                 THEN name \in DOMAIN h /\ h[name] = call.origin.val
                 ELSE name \notin DOMAIN h

\* With an allowlist that has no wildcard, a request from an origin outside
\* it got no Access-Control-Allow-Origin.
C12_Witness ==
  /\ call.called
  /\ call.fn = "getCorsHeaders"
  /\ config.allowedOrigins = <<"https://a.example">>
  /\ call.origin = Header("https://evil.example")
  /\ "Access-Control-Allow-Origin" \notin DOMAIN call.ret


\* ------------------------------------------------------------------------
\* The headers of the JSON answers
\* ------------------------------------------------------------------------

\* The handler answered with a JSON body: the 429, the health answer, and
\* every answer to a request under /api/ that is no preflight.
JsonAnswer ==
  /\ ev.type = "request"
  /\ ~ev.suspended
  /\ \/ ev.limited
     \/ /\ ev.req.method # "OPTIONS"
        /\ (ev.pathname = "/health" \/ StartsWith(ev.pathname, "/api/"))

\* headers holds every header of cors with the same value.
Carries(headers, cors) ==
  \A name \in DOMAIN cors : name \in DOMAIN headers /\ headers[name] = cors[name]

\* C13: every JSON answer of handleRequest (the 200 of a collector and of
\* /health, 401, the 404 of an unmatched API path, 429) carries the headers
\* getCorsHeaders computes for its request.
C13_JsonAnswersCarryCors ==
  /\ JsonAnswer =>
       Carries(ev.resp.headers, GetCorsHeaders(config.allowedOrigins, ev.req.origin))
  /\ ev.type = "completion" => Carries(ev.resp.headers, CorsBase)


\* ------------------------------------------------------------------------
\* What the API paths answer when probes fail
\* ------------------------------------------------------------------------

\* A handler answered a request for one of the six API paths: at once, or
\* when the last probe of its collector resolved.
ApiAnswered ==
  \/ ev.type = "completion"
  \/ /\ ev.type = "request"
     /\ ~ev.suspended
     /\ ~ev.limited
     /\ ev.pathname = "/api/config" \/ CollectorOf(ev.pathname) # ""

\* The probe of a sub-task failed, or the sub-task never ran one.
TaskFailed(task) == IF task.spawned THEN ~task.res.ok ELSE TRUE

\* body has the shape of the metric's result.
ShapeOf(key, body) ==
  CASE key = "system" ->
         DOMAIN body = {"cpu", "memoryUsed", "memoryTotal", "memoryPct",
                        "diskUsed", "diskTotal", "diskPct", "uptime"}
    [] key = "sessions" -> DOMAIN body = {"sessions"}
    [] key = "services" ->
         /\ DOMAIN body = {"services"}
         /\ \A i \in 1..Len(body.services) : body.services[i].status \in {"up", "down"}
    [] key = "network" ->
         /\ DOMAIN body = {"hosts"}
         /\ \A i \in 1..Len(body.hosts) : body.hosts[i].status \in {"online", "offline"}
    [] key = "crons" -> DOMAIN body = {"jobs"}

\* body has the sentinel values for the probes of tasks that failed.
SentinelsOf(key, tasks, body) ==
  CASE key = "system" ->
         /\ TaskFailed(tasks[1]) => body.cpu = "0"
         /\ TaskFailed(tasks[2]) =>
              body.memoryUsed = "--" /\ body.memoryTotal = "--" /\ body.memoryPct = "0"
         /\ TaskFailed(tasks[3]) =>
              body.diskUsed = "--" /\ body.diskTotal = "--" /\ body.diskPct = "0"
         /\ TaskFailed(tasks[4]) => body.uptime = "--"
    [] key = "services" ->
         \A i \in 1..Len(tasks) : TaskFailed(tasks[i]) => body.services[i].status = "down"
    [] key = "network" ->
         \A i \in 1..Len(tasks) : TaskFailed(tasks[i]) => body.hosts[i].status = "offline"
    [] OTHER ->
         (Len(tasks) = 0 \/ TaskFailed(tasks[1])) => body = EmptyList(key)

\* C14: a request of an admitted, authorized client for one of the six API
\* paths is answered 200 with the result shape of its path whatever probes
\* fail: a failed probe shows as '--', 0, 'down', 'offline' or an empty
\* list.
C14_ProbeFailuresStayInside ==
  ApiAnswered =>
       /\ ev.resp.status = 200
       /\ IF ev.type = "request" /\ ev.pathname = "/api/config"
            THEN DOMAIN ev.resp.body = {"refreshInterval", "dashboardTitle", "quickLinks"}
            ELSE /\ ShapeOf(ev.col.key, ev.resp.body)
                 /\ ~ev.col.hit /\ Len(ev.col.tasks) > 0 =>
                      SentinelsOf(ev.col.key, ev.col.tasks, ev.resp.body)
                 /\ (ev.col.key \in GatewayKeys /\ ~ev.col.hit
                       /\ CollectionFailed(ev.col)) =>
                      ev.resp.body = EmptyList(ev.col.key)

\* getSystem answered 200 after all four of its probes failed.
C14_Witness ==
  /\ ev.type = "completion"
  /\ ev.col.key = "system"
  /\ \A j \in 1..4 : ~ev.col.tasks[j].res.ok
  /\ ev.resp.status = 200
  /\ ev.resp.body.cpu = "0"
  /\ ev.resp.body.uptime = "--"


\* ------------------------------------------------------------------------
\* The list getServices returns
\* ------------------------------------------------------------------------

\* C15: getServices returns 1 + |config.services| entries, the synthetic
\* 'OpenClaw Gateway' first and the configured services after it in their
\* order; an entry is 'up' exactly when its probe returned the code '200' or
\* '404', and 'down' for another code, a failed probe or an invalid URL.
C15_ServicesList ==
  (ev.type \in {"request", "completion"} /\ ev.col # Null /\ ev.col.done
     /\ ev.col.key = "services") =>
    LET list == ev.col.data.services IN
    /\ Len(list) = 1 + Len(config.services)
    /\ list[1].name = "OpenClaw Gateway"
    /\ \A i \in 1..Len(config.services) :
         list[i + 1].name = config.services[i].name /\
         list[i + 1].port = config.services[i].port
    /\ ~ev.col.hit =>
         \A i \in 1..Len(list) :
           list[i].status =
             IF ev.col.tasks[i].spawned
                /\ ev.col.tasks[i].res \in {Output("200"), Output("404")}
               THEN "up" ELSE "down"

\* With two services configured the list has three entries: the gateway up
\* on a 404, and the service with the ftp URL down.
C15_Witness ==
  /\ ev.type = "completion"
  /\ ev.col.key = "services"
  /\ Len(ev.col.data.services) = 3
  /\ ev.col.tasks[1].res = Output("404")
  /\ ev.col.data.services[1].status = "up"
  /\ ev.col.data.services[3].name = "Files"
  /\ ev.col.data.services[3].status = "down"


\* ------------------------------------------------------------------------
\* run and runFile: one child process per invocation
\* ------------------------------------------------------------------------

WhiteSpace == {" ", "\n"}

RECURSIVE TrimStart(_)
TrimStart(s) ==
  IF Len(s) > 0 /\ Ch(s, 1) \in WhiteSpace THEN TrimStart(From(s, 2)) ELSE s

RECURSIVE TrimEnd(_)
TrimEnd(s) ==
  IF Len(s) > 0 /\ Ch(s, Len(s)) \in WhiteSpace
    THEN TrimEnd(SubSeq(s, 1, Len(s) - 1)) ELSE s

\* String.prototype.trim over the white space the probes print.
Trim(s) == TrimEnd(TrimStart(s))

\* How the promise of execAsync / execFileAsync settles: resolved with the
\* captured stdout, or rejected with an error.
Resolved(stdout) == [settled |-> "resolved", stdout |-> stdout]

Rejected(why) == [settled |-> "rejected", why |-> why]

\* The body of run without its catch: a rejection leaves the function.
RunUncaught(outcome) ==
  IF outcome.settled = "resolved"
    THEN [returns |-> TRUE, value |-> Output(Trim(outcome.stdout))]
    ELSE [returns |-> FALSE, value |-> Null]

\* The body of run and of runFile: the trimmed stdout, or null from the catch.
Run(outcome) ==
  IF outcome.settled = "resolved"
    THEN [returns |-> TRUE, value |-> Output(Trim(outcome.stdout))]
    ELSE [returns |-> TRUE, value |-> Failed]

\* The timeouts the callers pass: ping, curl, and the default.
Timeouts == {3000, 5000, 10000}

RunInstants == {0, 3000, 5000, 6000, 10000}

Stdouts == {"", "200", "200\n", " up 3 days \n"}

Running(k) == runs[k].state = "running"

\* run(cmd, timeout) or runFile(cmd, args, timeout) is called: the child is
\* spawned (or the spawn fails) and the invocation awaits it.
RunStart(k, fn, timeout, spawned) ==
  /\ runs[k] = NoRun
  /\ runs' = [runs EXCEPT ![k] =
       [ state |-> "running", fn |-> fn, timeout |-> timeout, started |-> now,
         child |-> IF spawned THEN "alive" ELSE "none",
         settles |-> 0, how |-> "", returns |-> FALSE, value |-> Null ]]
  /\ call' = [called |-> TRUE, fn |-> "start", k |-> k, before |-> runs]
  /\ UNCHANGED <<now, config, rateVars, adm, au, cacheVars, reqVars, proc>>

\* The awaited promise settles with outcome: the invocation returns what
\* Run makes of it.
Settle(k, how, child, outcome) ==
  /\ runs' = [runs EXCEPT ![k] =
       [ @ EXCEPT !.state = "settled", !.child = child, !.how = how,
                  !.settles = @ + 1,
                  !.returns = Run(outcome).returns,
                  !.value = Run(outcome).value ]]
  /\ call' = [called |-> TRUE, fn |-> "settle", k |-> k, before |-> runs]
  /\ UNCHANGED <<now, config, rateVars, adm, au, cacheVars, reqVars, proc>>

\* The child exits by itself with an exit code, having printed stdout.
ChildExit(k, code, stdout) ==
  /\ Running(k) /\ runs[k].child = "alive"
  /\ Settle(k, IF code = 0 THEN "exit0" ELSE "nonzero", "exited",
            IF code = 0 THEN Resolved(stdout) ELSE Rejected("exit code"))

\* The spawn failed (no such executable): the promise rejects.
SpawnError(k) ==
  /\ Running(k) /\ runs[k].child = "none"
  /\ Settle(k, "spawn error", "none", Rejected("spawn"))

\* The timeout option: the child is sent the kill signal once it has run
\* for timeout ms, and the promise rejects.
TimeoutKill(k) ==
  /\ Running(k) /\ runs[k].child = "alive"
  /\ now - runs[k].started >= runs[k].timeout
  /\ Settle(k, "timeout", "killed", Rejected("killed"))

\* Time passes, up to the earliest pending timeout.
AdvanceRun ==
  /\ \E t \in RunInstants :
       /\ t > now
       /\ \A k \in 1..MaxRuns :
            (Running(k) /\ runs[k].child = "alive") =>
              t <= runs[k].started + runs[k].timeout
       /\ now' = t
  /\ UNCHANGED <<config, auxVars, adm, rateVars, au, cacheVars, reqVars>>

InitRun == InitState({DEFAULT_CONFIG})

NextRun ==
  \/ \E k \in 1..MaxRuns, fn \in {"run", "runFile"}, t \in Timeouts,
        sp \in BOOLEAN : RunStart(k, fn, t, sp)
  \/ \E k \in 1..MaxRuns, code \in {0, 1}, out \in Stdouts :
       ChildExit(k, code, out)
  \/ \E k \in 1..MaxRuns : SpawnError(k)
  \/ \E k \in 1..MaxRuns : TimeoutKill(k)
  \/ AdvanceRun

SpecRun == InitRun /\ [][NextRun]_vars

\* C16: an invocation of run or runFile settles once and always by
\* returning: the trimmed output when the child exited with code 0, null on
\* a non-zero exit, a spawn error or a timeout; a timeout happens only once
\* the invocation's own timeout has elapsed and leaves its child killed; and
\* a step of one invocation changes no other invocation and no request.
C16_RunNeverThrows ==
  /\ \A k \in 1..MaxRuns :
       /\ runs[k].state = "running" => runs[k].settles = 0
       /\ runs[k].state = "settled" =>
            /\ runs[k].settles = 1
            /\ runs[k].returns
            /\ runs[k].how = "exit0" =>
                 runs[k].value.ok /\ runs[k].value.out \in {"", "200", "up 3 days"}
            /\ runs[k].how \in {"nonzero", "spawn error", "timeout"} =>
                 runs[k].value = Failed
            /\ runs[k].how = "timeout" <=> runs[k].child = "killed"
            /\ runs[k].child = "killed" =>
                 now >= runs[k].started + runs[k].timeout
  /\ (call # NoCall /\ call.fn \in {"start", "settle"}) =>
       /\ \A j \in 1..MaxRuns : j # call.k => runs[j] = call.before[j]
       /\ alive /\ \A i \in 1..MaxInFlight : reqs[i] = Idle

\* One invocation has timed out, with its child killed and null returned,
\* while the other one, started with it, is still running.
C16_Witness ==
  /\ call # NoCall /\ call.fn = "settle"
  /\ runs[call.k].how = "timeout"
  /\ runs[call.k].value = Failed
  /\ \E j \in 1..MaxRuns :
       j # call.k /\ runs[j].state = "running" /\ runs[j].child = "alive"
                  /\ runs[j].started = runs[call.k].started


\* ------------------------------------------------------------------------
\* Graceful shutdown
\* ------------------------------------------------------------------------

\* Requests for a collector, for a static file, and the one whose target
\* new URL cannot parse.
ShutdownRequests ==
  { Req("GET", t, NoHeader) : t \in {"/api/sessions", "/index.html", "//"} }

\* The requests a shutdown can find in flight at once.
MaxHeld == 2

Closing == alive /\ proc.phase = "closing"

Busy == {i \in 1..MaxHeld : reqs[i].busy}

\* SIGTERM or SIGINT: shutdown calls server.close and arms the exit timer.
\* A second signal calls it again: the close callback is registered once
\* more and a later timer is armed, so the earliest timer still decides.
Signal(sig) ==
  /\ alive
  /\ now + GRACE \in ShutdownInstants
  /\ \/ /\ proc.phase = "up"
        /\ proc' = [phase |-> "closing", deadline |-> now + GRACE, signals |-> 1]
     \/ /\ proc.phase = "closing" /\ proc.signals = 1
        /\ proc' = [proc EXCEPT !.signals = 2]
  /\ UNCHANGED <<now, config, rateVars, adm, au, cacheVars, reqVars, call, runs>>

\* A request reaches handleRequest: on any connection while the server
\* listens, and once it is closing only on a connection that is still open
\* because a request is in flight on it.
Arrive(req) ==
  /\ proc.phase = "up" \/ (proc.phase = "closing" /\ Busy # {})
  /\ HandleRequest(req, MaxReqs, MaxHeld)

\* The 'close' event: every connection has ended, and the callback given to
\* server.close exits with code 0.
ServerClosed ==
  /\ Closing
  /\ Busy = {}
  /\ proc' = [phase |-> "exited", code |-> 0, deadline |-> proc.deadline,
              signals |-> proc.signals]
  /\ alive' = FALSE
  /\ UNCHANGED <<now, config, rateVars, adm, au, cacheVars, reqs, ev, call, runs>>

\* The timer of shutdown fires: exit with code 1, whatever is in flight.
GraceTimer ==
  /\ Closing
  /\ now >= proc.deadline
  /\ proc' = [phase |-> "exited", code |-> 1, deadline |-> proc.deadline,
              signals |-> proc.signals]
  /\ alive' = FALSE
  /\ UNCHANGED <<now, config, rateVars, adm, au, cacheVars, reqs, ev, call, runs>>

\* Time passes; a pending exit timer fires no later than at its instant.
AdvanceShutdown ==
  /\ \E t \in ShutdownInstants :
       /\ t > now
       /\ Closing => t <= proc.deadline
       /\ now' = t
  /\ UNCHANGED <<config, auxVars, adm, rateVars, au, cacheVars, reqVars>>

InitShutdown == InitState({DEFAULT_CONFIG})

NextShutdown ==
  \/ \E sig \in {"SIGTERM", "SIGINT"} : Signal(sig)
  \/ \E req \in ShutdownRequests : Arrive(req)
  \/ \E i \in 1..MaxHeld, result \in {Failed, Output(SessionsBody)} :
       ProbeDone(i, 1, result)
  \/ \E i \in 1..MaxHeld, found \in BOOLEAN : FileDone(i, found)
  \/ ServerClosed
  \/ GraceTimer
  \/ AdvanceShutdown

\* Time passes and armed timers fire; nothing obliges clients or probes.
SpecShutdown ==
  /\ InitShutdown
  /\ [][NextShutdown]_vars
  /\ WF_vars(AdvanceShutdown)
  /\ WF_vars(GraceTimer)

\* The process has ended after a shutdown signal.
Ended == proc.phase # "up" /\ ~alive

\* C17: after SIGTERM or SIGINT the process always exits, with code 0 once
\* the server has closed (no request in flight any more) or with code 1 when
\* the 10000 ms timer fires; until that timer expires no request in flight
\* is cut off.
C17_GracefulShutdown ==
  /\ [](Ended =>
          /\ proc.phase = "exited"
          /\ \/ proc.code = 0 /\ Busy = {}
             \/ proc.code = 1 /\ now >= proc.deadline)
  /\ (proc.phase = "closing" ~> ~alive)


\* ------------------------------------------------------------------------
\* Admissions of one client around a window boundary
\* ------------------------------------------------------------------------

\* The client whose admissions are counted.
Caller == "10.0.0.1"

\* A window opened at 0 is still open at RATE_WINDOW and is reset by the
\* first call at RATE_WINDOW + 1.
WindowInstants == {0, RATE_WINDOW, RATE_WINDOW + 1}

\* A call of isRateLimited by handleRequest; a call that returns false is an
\* admitted request, counted at its instant.
AdmitCall(ip) ==
  /\ IsRateLimitedCall(ip)
  /\ adm' = [adm EXCEPT ![ip][now] =
               IF IsRateLimited(rateMap[ip], now).ret THEN @ ELSE @ + 1]

InitWindow == InitState({DEFAULT_CONFIG})

NextWindow ==
  \/ AdmitCall(Caller)
  \/ Sweep
  \/ Advance(WindowInstants)

SpecWindow == InitWindow /\ [][NextWindow]_vars

RECURSIVE SumOver(_, _)
SumOver(f, S) ==
  IF S = {} THEN 0
  ELSE LET x == CHOOSE y \in S : TRUE IN f[x] + SumOver(f, S \ {x})

\* The requests of the client admitted at the instants from a to b.
Admitted(a, b) == SumOver(adm[Caller], {t \in WindowInstants : a <= t /\ t <= b})

\* C18: a client never has more than 2 x RATE_LIMIT = 120 requests admitted
\* within an interval of RATE_WINDOW ms, nor across the boundary between two
\* windows; each window by itself admits at most RATE_LIMIT.
C18_BurstAcrossBoundary ==
  /\ \A a \in WindowInstants : Admitted(a, a + RATE_WINDOW) <= 2 * RATE_LIMIT
  /\ Admitted(0, RATE_WINDOW + 1) <= 2 * RATE_LIMIT
  /\ Admitted(0, RATE_WINDOW) <= RATE_LIMIT

\* 120 admitted across the boundary: a window opened at 0 takes its last 59
\* requests at RATE_WINDOW, and the window the reset opens one millisecond
\* later takes 60.
C18_Witness ==
  /\ adm[Caller][0] = 1
  /\ adm[Caller][RATE_WINDOW] = RATE_LIMIT - 1
  /\ adm[Caller][RATE_WINDOW + 1] = RATE_LIMIT
  /\ rl.called /\ rl.at = RATE_WINDOW + 1 /\ ~rl.ret


\* ------------------------------------------------------------------------
\* isValidUrl, called directly on strings built from their parts
\* ------------------------------------------------------------------------

UrlSchemes == {"", "http", "https", "HTTP", "Https", "ftp", "javascript", "file", "1http"}

UrlHosts == {"", "localhost", "example.com", "alert(1)", "not-a-url", "ex ample", "a<b"}

UrlPorts == {"", ":3000", ":65535", ":65536", ":80a"}

UrlPaths == {"", "/path"}

\* Scheme, separator, host, port and path of a string to validate. A string
\* without a scheme has no separator either; an empty host is followed by
\* nothing, since the parser would take what follows the slashes as the
\* host; the script text goes with its own scheme only.
UrlInputs ==
  { p \in [ scheme : UrlSchemes, sep : {"", ":", "://"}, host : UrlHosts,
            port : UrlPorts, path : UrlPaths ] :
      /\ (p.sep = "") <=> (p.scheme = "")
      /\ p.host = "" => p.path = ""
      /\ p.host = "alert(1)" => p.scheme = "javascript" }

UrlString(p) == p.scheme \o p.sep \o p.host \o p.port \o p.path

\* A direct call isValidUrl(str), as the tests and the collectors make it.
IsValidUrlCall(p) ==
  /\ call = NoCall
  /\ call' = [ called |-> TRUE, fn |-> "isValidUrl", parts |-> p,
               arg |-> UrlString(p), ret |-> IsValidUrl(UrlString(p)) ]
  /\ UNCHANGED <<now, config, rateVars, adm, au, cacheVars, reqVars, runs, proc>>

InitUrl == InitState({DEFAULT_CONFIG})

NextUrl == \E p \in UrlInputs : IsValidUrlCall(p)

SpecUrl == InitUrl /\ [][NextUrl]_vars

\* The strings of the inputs that are URLs by their parts: a host free of
\* forbidden characters and, if any, a decimal port of at most 65535.
WellFormed(p) ==
  /\ p.host \in {"localhost", "example.com", "not-a-url"}
  /\ p.port \in {"", ":3000", ":65535"}

\* C19: isValidUrl(s) is true exactly when s parses as a URL and its scheme
\* is http or https in any letter case; it is false for the empty string,
\* for strings without a scheme, for http(s) strings without a host or with
\* a bad host or port, and for every other scheme.
C19_IsValidUrl ==
  (call # NoCall /\ call.fn = "isValidUrl") =>
    /\ call.ret <=>
         /\ call.parts.scheme \in {"http", "https", "HTTP", "Https"}
         /\ WellFormed(call.parts)
    /\ call.arg \in {"", "not-a-url", "ftp://example.com", "javascript:alert(1)",
                     "http://", "https://example.com:65536", "http://ex ample"}
         => ~call.ret
    /\ call.arg \in {"http://localhost:3000", "https://example.com/path",
                     "HTTP://example.com"}
         => call.ret

\* The javascript: string of the tests was given and refused.
C19_Witness ==
  /\ call # NoCall /\ call.fn = "isValidUrl"
  /\ call.arg = "javascript:alert(1)"
  /\ ~call.ret


\* ------------------------------------------------------------------------
\* The order of the auth gate and the route match
\* ------------------------------------------------------------------------

\* The six paths the switch of handleRequest has a case for.
ApiPaths ==
  {"/api/system", "/api/sessions", "/api/services", "/api/network",
   "/api/crons", "/api/config"}

\* The JSON 404 of the API branch was answered.
ApiNotFound ==
  /\ ev.type = "request"
  /\ ~ev.suspended
  /\ ev.resp.status = 404
  /\ ev.resp.body = [error |-> "Not found"]

\* C20: under /api/ the auth gate comes before the route match: with a token
\* configured, a request failing checkAuth is answered 401 after the auth
\* step alone, whether its path is one of the six API paths or not; and the
\* 404 {error: 'Not found'} is answered exactly to the requests that passed
\* the gate and whose path is none of the six.
C20_AuthBeforeRouteMatch ==
  /\ (ApiRequest /\ config.token # "" /\ ~CheckAuth(config.token, ev.req.auth)) =>
       /\ ev.resp.status = 401
       /\ ev.steps = <<"rateLimit", "auth">>
  /\ ApiNotFound <=>
       /\ ApiRequest
       /\ CheckAuth(config.token, ev.req.auth)
       /\ ev.pathname \notin ApiPaths
  /\ ApiNotFound => ev.steps = <<"rateLimit", "auth", "notFound">>

\* With a token configured, a request without credentials for an unknown
\* API path was answered 401, not 404.
C20_Witness ==
  /\ ApiRequest
  /\ config.token = "secret123"
  /\ ev.pathname = "/api/nope"
  /\ ev.req.auth = NoHeader
  /\ ev.resp.status = 401


\* ------------------------------------------------------------------------
\* The preflight step
\* ------------------------------------------------------------------------

\* C21: an admitted OPTIONS request is answered 204 with the CORS headers
\* at once, for an API path, /health or a static path and whatever token is
\* configured: the preflight is its only step after the rate limiter, no
\* collector is called and nothing is awaited.
C21_PreflightFirst ==
  (ev.type = "request" /\ ~ev.limited /\ ev.req.method = "OPTIONS") =>
    /\ ~ev.suspended
    /\ ev.resp.status = 204
    /\ ev.resp.headers = GetCorsHeaders(config.allowedOrigins, ev.req.origin)
    /\ ev.steps = <<"rateLimit", "preflight">>
    /\ ev.col = Null

\* With a token configured, OPTIONS /api/sessions without credentials was
\* answered 204.
C21_Witness ==
  /\ ev.type = "request" /\ ~ev.limited
  /\ ev.req.method = "OPTIONS"
  /\ ev.pathname = "/api/sessions"
  /\ config.token = "secret123"
  /\ ev.req.auth = NoHeader
  /\ ev.resp.status = 204


\* ------------------------------------------------------------------------
\* A collector called while its entry is fresh
\* ------------------------------------------------------------------------

\* A collector was called by a request and found the entry of its key less
\* than CACHE_TTL old (getNetwork reads the cache only with a host configured).
CalledOnFreshEntry ==
  /\ ev.type = "request"
  /\ ev.col # Null
  /\ ev.col.key = "network" => Len(config.hosts) >= 1
  /\ ev.col.was # NoEntry
  /\ ev.at - ev.col.was.time < CACHE_TTL

\* C22: a collector called while the entry of its key is less than 5000 ms
\* old returns exactly the cached value, starts no probe and leaves the
\* entry as it was.
C22_FreshEntryServed ==
  CalledOnFreshEntry =>
    /\ ev.col.hit
    /\ ~ev.suspended
    /\ ev.col.tasks = <<>>
    /\ ev.resp.status = 200
    /\ ev.resp.body = ev.col.was.data
    /\ cache[ev.col.key] = ev.col.was
    /\ written[ev.col.key] = [data |-> ev.col.was.data, time |-> ev.col.was.time]

\* getServices was called again in the same instant its result was stored
\* and answered the stored list.
C22_Witness ==
  /\ CalledOnFreshEntry
  /\ ev.col.key = "services"
  /\ ev.col.hit
  /\ Len(ev.resp.body.services) = 3
  /\ cache["services"].time = ev.at


\* ------------------------------------------------------------------------
\* Joined results and the order in which probes complete
\* ------------------------------------------------------------------------

\* getSystem, getServices or getNetwork ran to its end on its probes.
Joined ==
  /\ ev.type = "completion"
  /\ ev.col.key \in {"system", "services", "network"}

\* What the list getServices returns must be, entry by entry, given what
\* the probe of each entry resolved to.
ServicesBy(tasks) ==
  LET all == <<DefaultService(config)>> \o config.services IN
  [ i \in 1..Len(all) |->
      [ name |-> all[i].name, port |-> all[i].port,
        status |-> IF tasks[i].spawned
                      /\ tasks[i].res \in {Output("200"), Output("404")}
                     THEN "up" ELSE "down" ] ]

HostsBy(tasks) ==
  [ i \in 1..Len(config.hosts) |->
      [ name |-> config.hosts[i].name, ip |-> config.hosts[i].ip,
        status |-> IF tasks[i].spawned /\ tasks[i].res.ok
                     THEN "online" ELSE "offline" ] ]

\* C23: what getSystem, getServices and getNetwork return is decided by what
\* each probe resolved to, whichever probe completed last: the entries are
\* in configuration order, each with the outcome of its own target, and the
\* fields of getSystem come from the commands they belong to.
C23_OrderOfCompletionIrrelevant ==
  Joined =>
    LET tasks == ev.col.tasks
        data  == ev.col.data
    IN  /\ \A j \in 1..Len(tasks) :
             tasks[j].spawned => tasks[j].res \in ProbeResults(ev.col.key, tasks[j])
        /\ ev.col.key = "services" => data = [services |-> ServicesBy(tasks)]
        /\ ev.col.key = "network" => data = [hosts |-> HostsBy(tasks)]
        /\ ev.col.key = "system" =>
             /\ Len(tasks) = 4
             /\ data.cpu = IF tasks[1].res.ok THEN "12.5" ELSE "0"
             /\ data.memoryUsed = IF tasks[2].res.ok THEN "1.2G" ELSE "--"
             /\ data.memoryPct = IF tasks[2].res.ok THEN "15.5" ELSE "0"
             /\ data.diskUsed = IF tasks[3].res.ok THEN "20G" ELSE "--"
             /\ data.diskPct = IF tasks[3].res.ok THEN "40" ELSE "0"
             /\ data.uptime = IF tasks[4].res.ok THEN "2 hours" ELSE "--"

\* The probe of the first command of getSystem completed last, after the
\* three others, and its output is the cpu field.
C23_Witness ==
  /\ Joined
  /\ ev.col.key = "system"
  /\ ev.last = 1
  /\ ev.col.data.cpu = "12.5"
  /\ ev.col.data.uptime = "2 hours"


\* ------------------------------------------------------------------------
\* Failed gateway fetches
\* ------------------------------------------------------------------------

\* getSessions or getCrons ran to its end on a fetch that failed: the
\* gateway URL is invalid, the runner returned null or nothing, or the
\* output is no JSON.
FetchFailed ==
  /\ Collected
  /\ ev.col.key \in GatewayKeys
  /\ \/ Len(ev.col.tasks) = 0
     \/ ev.col.tasks[1].res = Failed
     \/ ev.col.tasks[1].res.out \in {"", "<html>"}

\* C24: a getSessions or getCrons call whose fetch failed returns the empty
\* list and leaves the entry of its key as it was; an entry of these keys is
\* written only with a list parsed from the gateway's answer; and a request
\* that finds no entry, the gateway URL being valid, issues the fetch again.
C24_FailedFetchNotCached ==
  /\ FetchFailed =>
       /\ ev.col.data = EmptyList(ev.col.key)
       /\ ev.resp.body = EmptyList(ev.col.key)
       /\ cache[ev.col.key] = ev.col.was
  /\ \A key \in GatewayKeys :
       cache[key] # NoEntry =>
         /\ written[key] = cache[key]
         /\ cache[key].data \in
              IF key = "sessions"
                THEN { [sessions |-> <<>>],
                       [sessions |-> <<[name |-> "a1", channel |-> "unknown", tokens |-> 0]>>] }
                ELSE { [jobs |-> <<>>],
                       [jobs |-> <<[name |-> "j1", schedule |-> "--"]>>] }
  /\ (ev.type = "completion" /\ ev.col.key \in GatewayKeys /\ ev.col.store) =>
       ev.col.tasks[1].res \in {Output("{}"), Output(SessionsBody), Output(JobsBody)}
  /\ (ev.type = "request" /\ ev.col # Null /\ ev.col.key \in GatewayKeys
        /\ ev.col.was = NoEntry /\ IsValidUrl(GatewayUrl(config, ev.col.key))) =>
       /\ ev.suspended
       /\ reqs[1].busy /\ reqs[1].key = ev.col.key /\ reqs[1].tasks[1].pending

\* getCrons got a page that is no JSON: it answered the empty list and the
\* key has no entry.
C24_Witness ==
  /\ FetchFailed
  /\ ev.type = "completion"
  /\ ev.col.key = "crons"
  /\ ev.col.tasks[1].res = Output("<html>")
  /\ ev.resp.body = [jobs |-> <<>>]
  /\ cache["crons"] = NoEntry


\* ------------------------------------------------------------------------
\* The background sweep
\* ------------------------------------------------------------------------

\* C25: a pass of the sweep (a step that changes rateMap without a call of
\* isRateLimited) deletes exactly the entries with now - start > 60000 and
\* leaves every other entry with its count and start; after the pass the
\* map holds no expired entry.
C25_SweepDeletesExpiredOnly ==
  [][ (rateMap' # rateMap /\ rl' = rl) =>
        \A ip \in Clients :
          /\ rateMap'[ip] =
               IF rateMap[ip] # NoEntry /\ now - rateMap[ip].start > RATE_WINDOW
                 THEN NoEntry ELSE rateMap[ip]
          /\ rateMap'[ip] # NoEntry => now' - rateMap'[ip].start <= RATE_WINDOW
    ]_vars

\* After a pass: the entry of the first client, whose window had expired,
\* is gone, and the entry of the second, exactly RATE_WINDOW old, is kept.
C25_Witness ==
  /\ rateMap["10.0.0.1"] = NoEntry
  /\ win["10.0.0.1"] # NoEntry
  /\ rateMap["10.0.0.2"] # NoEntry
  /\ now - rateMap["10.0.0.2"].start = RATE_WINDOW


\* ------------------------------------------------------------------------
\* What an entry of rateMap counts
\* ------------------------------------------------------------------------

\* C26: every entry of rateMap has count >= 1, and its count is the number
\* of isRateLimited calls of its client since, and including, the call that
\* set its start (rejected calls included); from one state to the next an
\* entry either keeps its start and counts one more, or is reset to count 1
\* with start now once more than RATE_WINDOW ms old.
C26_CountIsCallsSinceStart ==
  /\ [](\A ip \in Clients :
          rateMap[ip] # NoEntry =>
            /\ rateMap[ip].count >= 1
            /\ rateMap[ip].count = win[ip].n
            /\ rateMap[ip].start = win[ip].start)
  /\ [][ \A ip \in Clients :
           (rateMap[ip] # NoEntry /\ rateMap'[ip] # NoEntry
              /\ rateMap'[ip] # rateMap[ip]) =>
             \/ /\ rateMap'[ip].start = rateMap[ip].start
                /\ rateMap'[ip].count = rateMap[ip].count + 1
             \/ /\ rateMap'[ip] = [count |-> 1, start |-> now]
                /\ now - rateMap[ip].start > RATE_WINDOW
     ]_vars

\* A client's entry counts 61 calls: the 60 admitted and the rejected one.
C26_Witness ==
  /\ rl.called /\ rl.ret
  /\ rateMap[rl.ip] # NoEntry
  /\ rateMap[rl.ip].count = RATE_LIMIT + 1
  /\ rl.before.count = RATE_LIMIT


\* ------------------------------------------------------------------------
\* Every request is answered
\* ------------------------------------------------------------------------

\* Requests answered at once, requests that await a probe or a file, and
\* the one whose target new URL cannot parse.
ServeRequests == ShutdownRequests \cup {Req("GET", "/health", NoHeader)}

InitServe == InitState({DEFAULT_CONFIG})

NextServe ==
  \/ \E req \in ServeRequests : HandleRequest(req, MaxReqs, MaxHeld)
  \/ \E i \in 1..MaxHeld, result \in {Failed, Output(SessionsBody)} :
       ProbeDone(i, 1, result)
  \/ \E i \in 1..MaxHeld, found \in BOOLEAN : FileDone(i, found)
  \/ Advance(RouterInstants)

\* Every probe ends (by success, failure or its timeout) and every file read
\* calls back; nothing obliges clients to send.
SpecServe ==
  /\ InitServe
  /\ [][NextServe]_vars
  /\ \A i \in 1..MaxHeld :
       /\ WF_vars(\E result \in {Failed, Output(SessionsBody)} : ProbeDone(i, 1, result))
       /\ WF_vars(\E found \in BOOLEAN : FileDone(i, found))

\* GET /health arrives now.
HealthArrives == HandleRequest(Req("GET", "/health", NoHeader), MaxReqs, MaxHeld)

\* C27: every request given to handleRequest gets its response: at once, or
\* it is suspended and answered when its probe or file read ends; and while
\* a request is suspended another one can be handled and answered.
C27_EveryRequestAnswered ==
  /\ [](ev.type \in {"request", "throw"} => (ev.suspended \/ ev.resp # Null))
  /\ \A i \in 1..MaxHeld : reqs[i].busy ~> ~reqs[i].busy
  /\ []((reqs[1].busy /\ MayArrive("10.0.0.1", MaxReqs)) => ENABLED HealthArrives)


\* ------------------------------------------------------------------------
\* Refused requests and the collectors
\* ------------------------------------------------------------------------

\* The request was over the rate limit, or it was for an API path and failed
\* the auth gate.
Refused ==
  /\ ev.type = "request"
  /\ \/ ev.limited
     \/ ApiRequest /\ config.token # "" /\ ~CheckAuth(config.token, ev.req.auth)

\* C28: a request answered 429 or 401 is answered at once without a
\* collector: no collector step, no probe started, and the cache and the
\* requests in flight are what they were before it.
C28_RefusedNeverCollects ==
  /\ [](Refused =>
          /\ ~ev.suspended
          /\ ev.resp.status = IF ev.limited THEN 429 ELSE 401
          /\ ev.col = Null
          /\ \A k \in 1..Len(ev.steps) : ev.steps[k] \notin {"collector", "config"})
  /\ [][ (ev' # ev /\ ev'.type = "request" /\ ~ev'.suspended
            /\ ev'.resp.status \in {429, 401}) =>
           /\ cache' = cache
           /\ written' = written
           /\ reqs' = reqs
     ]_vars

\* The 61st request of a window, for /api/sessions, was answered 429 and
\* nothing is in the cache or in flight.
C28_Witness ==
  /\ Refused
  /\ ev.limited
  /\ ev.pathname = "/api/sessions"
  /\ ev.resp.status = 429
  /\ cache["sessions"] = NoEntry
  /\ ~reqs[1].busy


\* ------------------------------------------------------------------------
\* The limiter with and without the sweep
\* ------------------------------------------------------------------------

\* The map isRateLimited would have built had no sweep ever run: the
\* history of the calls, which the sweep does not touch.
Unswept ==
  [ip \in Clients |->
     IF win[ip] = NoEntry THEN NoEntry
     ELSE [count |-> win[ip].n, start |-> win[ip].start]]

\* C29: the sweep cannot be seen through isRateLimited: each call returned
\* what it would have returned on the map no sweep ever touched, and at the
\* current and every later instant the next call of any client returns, and
\* leaves as entry, the same on both maps.
C29_SweepInvisible ==
  /\ rl.called =>
       /\ rl.after = Unswept[rl.ip]
       /\ rl.ret <=> Unswept[rl.ip].count > RATE_LIMIT
  /\ \A ip \in Clients : \A t \in RateInstants :
       t >= now => IsRateLimited(rateMap[ip], t) = IsRateLimited(Unswept[ip], t)

\* A client that was limited has had its entry swept: the map differs from
\* the unswept one, in an entry the next call resets anyway.
C29_Witness ==
  /\ rl.called
  /\ rateMap[rl.ip] = NoEntry
  /\ Unswept[rl.ip] # NoEntry
  /\ Unswept[rl.ip].count > RATE_LIMIT


\* ------------------------------------------------------------------------
\* Rejected calls and the length of the block
\* ------------------------------------------------------------------------

\* C30: a call of isRateLimited that returns true leaves the start of the
\* client's window where it was, so a call is rejected only within
\* RATE_WINDOW ms of the start of its window; and a client that kept calling
\* while limited is admitted by its first call made more than RATE_WINDOW ms
\* after that start.
C30_RejectsDoNotProlong ==
  rl.called =>
    /\ rl.ret =>
         /\ rl.before # NoEntry
         /\ rl.after.start = rl.before.start
         /\ rl.at - rl.before.start <= RATE_WINDOW
         /\ win[rl.ip].start = rl.before.start
    /\ (rl.before # NoEntry /\ rl.before.count > RATE_LIMIT
          /\ rl.at - rl.before.start > RATE_WINDOW) =>
         ~rl.ret /\ rl.after.start = rl.at

\* A client was rejected twice, the second time at RATE_WINDOW, and is
\* admitted by its call at RATE_WINDOW + 1.
C30_Witness ==
  /\ rl.called
  /\ ~rl.ret
  /\ rl.at = RATE_WINDOW + 1
  /\ rl.before # NoEntry
  /\ rl.before.start = 0
  /\ rl.before.count = RATE_LIMIT + 2


\* ------------------------------------------------------------------------
\* Coming back after the advertised Retry-After
\* ------------------------------------------------------------------------

\* C31: a client whose request was rejected (answered 429 with Retry-After:
\* 60) and whose next request comes at least 60000 ms later is admitted on
\* that request.
C31_RetryAfterHonoured ==
  [][ (rl.called /\ rl.ret /\ rl' # rl /\ rl'.at - rl.at >= RATE_WINDOW) =>
        ~rl'.ret
    ]_vars


\* ------------------------------------------------------------------------
\* One window per client
\* ------------------------------------------------------------------------

\* C32: a call isRateLimited(a) creates or changes the entry of a alone, and
\* what a client is told depends on that client's own calls only: the result
\* of a call is decided by its rank among the caller's calls of its window,
\* and the entry found is the one the caller's previous calls left, unless
\* the sweep removed it.
C32_PerClient ==
  /\ [][ rl' # rl =>
           \A ip \in Clients : ip # rl'.ip => rateMap'[ip] = rateMap[ip]
     ]_vars
  /\ [][ rl' # rl =>
           /\ rl'.before \in {NoEntry, Unswept[rl'.ip]}
           /\ rl'.ret <=> WinAfter(win[rl'.ip], rl'.at).n > RATE_LIMIT
     ]_vars

\* The second client is admitted on its first call while the first client,
\* in a window opened at the same instant, is over the limit.
C32_Witness ==
  /\ rl.called
  /\ rl.ip = "10.0.0.2"
  /\ ~rl.ret
  /\ rl.after.count = 1
  /\ rateMap["10.0.0.1"] # NoEntry
  /\ rateMap["10.0.0.1"].count > RATE_LIMIT
  /\ rateMap["10.0.0.1"].start = rl.after.start

\* ------------------------------------------------------------------------
\* The configuration file and the static route
\* ------------------------------------------------------------------------

\* The Authorization header of the request the last response answers.
AuthOf(e) == IF e.type = "file" THEN e.auth ELSE e.req.auth

\* A response that carries the content of config.json, the token included.
Discloses(resp) ==
  /\ resp.status = 200
  /\ "config" \in DOMAIN resp.body
  /\ resp.body.config.token = config.token

\* C33: when an auth token is configured, no response to a request that
\* lacks a valid Authorization header reveals the configured token or the
\* rest of the loaded configuration, whether the request is for an API
\* path, for /health or for a file of the static route.
C33_ConfigNeverDisclosed ==
  ( /\ config.token # ""
    /\ ev.type \in {"request", "file"}
    /\ ev.resp # Null
    /\ ~CheckAuth(config.token, AuthOf(ev)) ) =>
      ~Discloses(ev.resp)

====
